---- MODULE Spec2Model ----
(***************************************************************************)
(* Model of the annotation application.                                    *)
(*                                                                         *)
(* The ai-annotate edge function (src/unnamed/part_001): the four          *)
(* heuristic annotators and the HTTP handler that splits a file into rows  *)
(* and dispatches each row to the selected heuristic.                      *)
(*                                                                         *)
(* The store (the schema's tables and row-level security policies) and the *)
(* browser clients: the dashboard (src/Dashboard.tsx) and its overlays     *)
(* DatasetUpload and AIAnnotator, whose async handlers advance one await   *)
(* at a time.                                                              *)
(*                                                                         *)
(* Text is modelled by TLA+ strings; a character is a string of length 1.  *)
(***************************************************************************)
EXTENDS Integers, Sequences, FiniteSets, TLC

VARIABLES
    text,       \* argument of the last direct call of a heuristic
    ret,        \* [fn, arg, val]: the heuristic called last and what it returned
    request,    \* the HTTP request the endpoint is about to serve, or NoRequest
    response,   \* the Response the handler returned for it, or NoResponse
    bodyRead,   \* whether the handler called req.json() on the request
    store,      \* the tables: a sequence of rows each, in insertion order
    session,    \* per client: the id of the signed-in user (auth.uid())
    dash,       \* per client: the state of the Dashboard component
    loads,      \* per client: the activations of Dashboard.loadData
    upload,     \* per client: the state of the DatasetUpload overlay
    submits,    \* per client: the activations of DatasetUpload.handleSubmit
    annotator,  \* per client: the state of the AIAnnotator overlay
    runs        \* per client: the activations of AIAnnotator.handleAnnotate

\* the state of the store and of the clients
appVars == <<store, session, dash, loads, upload, submits, annotator, runs>>

\* the state of the edge function called on its own
edgeVars == <<text, ret, request, response, bodyRead>>

vars == <<edgeVars, appVars>>

----------------------------------------------------------------------------
(* Bounds of the inputs.                                                      *)

\* fragments concatenated into an input of classifyText / analyzeSentiment
MaxFrags == 2
\* characters of a short file_content of a request
MaxContentLen == 4
\* rows, beyond MaxRows, of the longest file_content of a request
ExtraRows == 50
\* Math.random: the seeds of the generator are 0..MaxSeed
MaxSeed == 1
\* fragments concatenated into an input of extractEntities
MaxEntityFrags == 3
\* characters of an input of summarizeText
MaxSummaryLen == 12

\* browser clients (one Dashboard each)
NumClients == 2
\* loads a Dashboard has in flight when a tab is clicked
MaxLoads == 2
\* rows of datasets
MaxDatasets == 2
\* activations of handleSubmit alive in a DatasetUpload
MaxSubmits == 2
\* activations of handleAnnotate alive in an AIAnnotator
MaxRuns == 2
\* rows of annotation_tasks
MaxTasks == 1
\* rows a table may have grown by when a request is posted to the store
\* directly
MaxDirect == 1

----------------------------------------------------------------------------
(* The application before anybody signed in: what the specifications of   *)
(* the edge function alone leave unchanged.                               *)

Clients == 1..NumClients

\* the tables written by the clients
Tables == {"projects", "datasets", "dataset_files", "annotation_tasks", "annotations"}

\* the tables after the migrations
EmptyStore == [table \in Tables |-> <<>>]

\* auth.uid() of a request without a session; user?.id of no user
NoUser == ""

\* a component that is not rendered
Unmounted == [mounted |-> FALSE]

AppAtRest ==
    /\ store = EmptyStore
    /\ session = [c \in Clients |-> NoUser]
    /\ dash = [c \in Clients |-> Unmounted]
    /\ loads = [c \in Clients |-> <<>>]
    /\ upload = [c \in Clients |-> Unmounted]
    /\ submits = [c \in Clients |-> <<>>]
    /\ annotator = [c \in Clients |-> Unmounted]
    /\ runs = [c \in Clients |-> <<>>]

----------------------------------------------------------------------------
(* Strings.                                                                *)

Min(a, b) == IF a <= b THEN a ELSE b

\* s[i], 1-based
CharAt(s, i) == SubSeq(s, i, i)

\* s.substring(i-1): the suffix starting at the 1-based position i
From(s, i) == SubSeq(s, i, Len(s))

UpperLetters == "ABCDEFGHIJKLMNOPQRSTUVWXYZ"

LowerLetters == "abcdefghijklmnopqrstuvwxyz"

DigitChars == "0123456789"

CharsOf(s) == {CharAt(s, i) : i \in 1..Len(s)}

Upper == CharsOf(UpperLetters)

Lower == CharsOf(LowerLetters)

Digit == CharsOf(DigitChars)

\* what String.prototype.trim and the regex class \s treat as white space
WhiteSpace == {" ", "\t", "\n", "\r", "\f"}

LowerOf == [c \in Upper |-> CharAt(LowerLetters, CHOOSE i \in 1..26 : CharAt(UpperLetters, i) = c)]

RECURSIVE toLowerCase(_)
toLowerCase(s) ==
    IF s = "" THEN ""
    ELSE LET c == CharAt(s, 1)
         IN  (IF c \in Upper THEN LowerOf[c] ELSE c) \o toLowerCase(From(s, 2))

\* String.prototype.includes
includes(s, sub) ==
    \E i \in 1..(Len(s) - Len(sub) + 1) : SubSeq(s, i, i + Len(sub) - 1) = sub

\* String.prototype.indexOf for a single character (1-based; 0 when absent)
indexOf(s, c) ==
    LET at == {i \in 1..Len(s) : CharAt(s, i) = c}
    IN  IF at = {} THEN 0 ELSE CHOOSE i \in at : \A j \in at : i <= j

RECURSIVE split(_, _)
\* String.prototype.split on a one-character separator: "" gives <<"">>.
\* The tokens of a text are those of its two halves, the last token of the
\* first half and the first token of the second being one token.
split(s, sep) ==
    IF indexOf(s, sep) = 0 THEN <<s>>
    ELSE IF Len(s) = 1 THEN <<"", "">>
    ELSE LET m == Len(s) \div 2
             left == split(SubSeq(s, 1, m), sep)
             right == split(SubSeq(s, m + 1, Len(s)), sep)
         IN  SubSeq(left, 1, Len(left) - 1)
               \o <<left[Len(left)] \o right[1]>>
               \o Tail(right)

RECURSIVE join(_, _)
\* Array.prototype.join
join(parts, sep) ==
    IF Len(parts) = 0 THEN ""
    ELSE IF Len(parts) = 1 THEN parts[1]
    ELSE parts[1] \o sep \o join(Tail(parts), sep)

RECURSIVE natToString(_)
\* the decimal digits of a natural number
natToString(n) ==
    IF n < 10 THEN CharAt(DigitChars, n + 1)
    ELSE natToString(n \div 10) \o CharAt(DigitChars, (n % 10) + 1)

\* Array.prototype.slice(0, n)
slice0(seq, n) == SubSeq(seq, 1, Min(n, Len(seq)))

RECURSIVE trimStart(_)
trimStart(s) ==
    IF s # "" /\ CharAt(s, 1) \in WhiteSpace THEN trimStart(From(s, 2)) ELSE s

RECURSIVE trimEnd(_)
trimEnd(s) ==
    IF s # "" /\ CharAt(s, Len(s)) \in WhiteSpace THEN trimEnd(SubSeq(s, 1, Len(s) - 1)) ELSE s

\* String.prototype.trim
trim(s) == trimEnd(trimStart(s))

----------------------------------------------------------------------------
(* classifyText                                                            *)

classifyText_swapped(t) ==
    LET lowerText == toLowerCase(t)
    IN  IF includes(lowerText, "tech") \/ includes(lowerText, "software") \/ includes(lowerText, "computer")
          THEN "Technology"
        ELSE IF includes(lowerText, "sports") \/ includes(lowerText, "game") \/ includes(lowerText, "team")
          THEN "Sports"
        ELSE IF includes(lowerText, "business") \/ includes(lowerText, "market") \/ includes(lowerText, "economy")
          THEN "Business"
        ELSE IF includes(lowerText, "health") \/ includes(lowerText, "medical") \/ includes(lowerText, "doctor")
          THEN "Health"
        ELSE "General"

classifyText(t) ==
    LET lowerText == toLowerCase(t)
    IN  IF includes(lowerText, "sports") \/ includes(lowerText, "game") \/ includes(lowerText, "team")
          THEN "Sports"
        ELSE IF includes(lowerText, "tech") \/ includes(lowerText, "software") \/ includes(lowerText, "computer")
          THEN "Technology"
        ELSE IF includes(lowerText, "business") \/ includes(lowerText, "market") \/ includes(lowerText, "economy")
          THEN "Business"
        ELSE IF includes(lowerText, "health") \/ includes(lowerText, "medical") \/ includes(lowerText, "doctor")
          THEN "Health"
        ELSE "General"

----------------------------------------------------------------------------
(* analyzeSentiment                                                        *)

positiveWords == {"good", "great", "excellent", "amazing", "love", "wonderful", "best", "happy"}

negativeWords == {"bad", "terrible", "awful", "hate", "worst", "sad", "poor", "disappointing"}

analyzeSentiment_positiveWins(t) ==
    LET lowerText == toLowerCase(t)
        hasPositive == \E word \in positiveWords : includes(lowerText, word)
        hasNegative == \E word \in negativeWords : includes(lowerText, word)
    IN  IF hasPositive THEN "Positive"
        ELSE IF hasNegative /\ ~hasPositive THEN "Negative"
        ELSE "Neutral"

analyzeSentiment(t) ==
    LET lowerText == toLowerCase(t)
        hasPositive == \E word \in positiveWords : includes(lowerText, word)
        hasNegative == \E word \in negativeWords : includes(lowerText, word)
    IN  IF hasPositive /\ ~hasNegative THEN "Positive"
        ELSE IF hasNegative /\ ~hasPositive THEN "Negative"
        ELSE "Neutral"

----------------------------------------------------------------------------
(* summarizeText                                                           *)

\* words.length <= SummaryWords is returned unchanged
SummaryWords == 10

summarizeText_noEllipsis(t) ==
    LET words == split(t, " ")
    IN  IF Len(words) <= SummaryWords THEN t
        ELSE join(slice0(words, SummaryWords), " ")

summarizeText_strictBound(t) ==
    LET words == split(t, " ")
    IN  IF Len(words) < SummaryWords THEN t
        ELSE join(slice0(words, SummaryWords), " ") \o "..."

summarizeText_alwaysEllipsis(t) ==
    LET words == split(t, " ")
    IN  join(slice0(words, SummaryWords), " ") \o "..."

summarizeText(t) ==
    LET words == split(t, " ")
    IN  IF Len(words) <= SummaryWords THEN t
        ELSE join(slice0(words, SummaryWords), " ") \o "..."

----------------------------------------------------------------------------
(* extractEntities: the three regular expressions, matched as the          *)
(* backtracking matcher of String.prototype.match does.  A match is given  *)
(* by its start s and the position e after its last character (0: none).   *)

\* the regex class \w
IsWordChar(c) == c \in Upper \cup Lower \cup Digit \cup {"_"}

\* the regex assertion \b before position p (1 .. Len(t) + 1)
WordBoundaryAt(t, p) ==
    LET before == p > 1 /\ IsWordChar(CharAt(t, p - 1))
        after == p <= Len(t) /\ IsWordChar(CharAt(t, p))
    IN  before # after

\* c is matched by the character class cls: its characters, or with neg
\* (a class [^...]) every other character
InClass(c, cls) == (c \in cls.chars) # cls.neg

\* the position after the longest run, from position p on, of characters
\* of the class (p itself when there is none): what a greedy cls* consumes
RunEnd(t, p, cls) ==
    CHOOSE q \in p..(Len(t) + 1) :
        /\ \A r \in p..(q - 1) : InClass(CharAt(t, r), cls)
        /\ q = Len(t) + 1 \/ ~InClass(CharAt(t, q), cls)

\* the slice [i, j] of t, cut to the text
Slice(t, i, j) == SubSeq(t, i, Min(j, Len(t)))

MaxOf(S) == CHOOSE m \in S : \A x \in S : x <= m

MinOf(S) == CHOOSE m \in S : \A x \in S : m <= x

\* [A-Za-z0-9._%+-]
LocalClass == [neg |-> FALSE, chars |-> Upper \cup Lower \cup Digit \cup {".", "_", "%", "+", "-"}]

\* [A-Za-z0-9.-]
DomainClass == [neg |-> FALSE, chars |-> Upper \cup Lower \cup Digit \cup {".", "-"}]

\* [A-Z|a-z]: the bar is a member of the class
TldClass == [neg |-> FALSE, chars |-> Upper \cup Lower \cup {"|"}]

\* [^\s]
NotSpaceClass == [neg |-> TRUE, chars |-> WhiteSpace]

\* \s
SpaceClass == [neg |-> FALSE, chars |-> WhiteSpace]

\* [A-Z]
UpperClass == [neg |-> FALSE, chars |-> Upper]

\* [a-z]
LowerClass == [neg |-> FALSE, chars |-> Lower]

\* the ends of [A-Z|a-z]{2,}\b after a dot at position d
TldEnds(t, d) ==
    {e \in (d + 3)..RunEnd(t, d + 1, TldClass) : WordBoundaryAt(t, e)}

\* /\b[A-Za-z0-9._%+-]+@[A-Za-z0-9.-]+\.[A-Z|a-z]{2,}\b/ tried at s.
\* The local part is the whole run before the @ ("@" is not in its class);
\* the domain gives back characters until a dot followed by a top-level
\* part is found, so the last such dot wins, and then the longest part.
emailRegex(t, s) ==
    IF ~WordBoundaryAt(t, s) THEN 0
    ELSE LET a == RunEnd(t, s, LocalClass)
         IN  IF a = s \/ a > Len(t) \/ CharAt(t, a) # "@" THEN 0
             ELSE LET dmax == RunEnd(t, a + 1, DomainClass)
                      dots == {d \in (a + 2)..(dmax - 1) :
                                  CharAt(t, d) = "." /\ TldEnds(t, d) # {}}
                  IN  IF dots = {} THEN 0 ELSE MaxOf(TldEnds(t, MaxOf(dots)))

\* /https?:\/\/[^\s]+/ tried at s
urlRegex(t, s) ==
    LET rest == IF Slice(t, s, s + 7) = "https://" THEN s + 8
                ELSE IF Slice(t, s, s + 6) = "http://" THEN s + 7
                ELSE 0
    IN  IF rest = 0 THEN 0
        ELSE LET e == RunEnd(t, rest, NotSpaceClass)
             IN  IF e = rest THEN 0 ELSE e

\* \s+[A-Z][a-z]+ tried at p
nextWord(t, p) ==
    LET u == RunEnd(t, p, SpaceClass)
    IN  IF u = p \/ u > Len(t) \/ ~InClass(CharAt(t, u), UpperClass) THEN 0
        ELSE LET v == RunEnd(t, u + 1, LowerClass)
             IN  IF v = u + 1 THEN 0 ELSE v

RECURSIVE wordEnds(_, _)
\* p, then the end of every further word the greedy (?:...)* takes
wordEnds(t, p) ==
    LET v == nextWord(t, p)
    IN  IF v = 0 THEN <<p>> ELSE <<p>> \o wordEnds(t, v)

\* /\b[A-Z][a-z]+(?:\s+[A-Z][a-z]+)*\b/ tried at s.  When the final \b
\* fails after the last word the matcher gives that word back; the end of
\* the word before it is followed by white space, where \b holds.
capitalizedRegex(t, s) ==
    IF ~WordBoundaryAt(t, s) \/ ~InClass(CharAt(t, s), UpperClass) THEN 0
    ELSE LET w == RunEnd(t, s + 1, LowerClass)
         IN  IF w = s + 1 THEN 0
             ELSE LET ends == wordEnds(t, w)
                      k == Len(ends)
                  IN  IF WordBoundaryAt(t, ends[k]) THEN ends[k]
                      ELSE IF k > 1 THEN ends[k - 1]
                      ELSE 0

regexExec(re, t, s) ==
    CASE re = "email" -> emailRegex(t, s)
      [] re = "url" -> urlRegex(t, s)
      [] re = "capitalized" -> capitalizedRegex(t, s)

RECURSIVE matchFrom(_, _, _)
\* the matches of the global regex re in t from lastIndex on, left to right
matchFrom(re, t, lastIndex) ==
    LET starts == {s \in lastIndex..Len(t) : regexExec(re, t, s) # 0}
    IN  IF starts = {} THEN <<>>
        ELSE LET s == MinOf(starts)
                 e == regexExec(re, t, s)
             IN  <<SubSeq(t, s, e - 1)>> \o matchFrom(re, t, e)

\* String.prototype.match with a global regex; <<>> stands for null, which
\* the callers test for before they iterate
match(t, re) == matchFrom(re, t, 1)

\* capitalizedWords.slice(0, PersonCap)
PersonCap == 3

Entities(texts, type) == [i \in 1..Len(texts) |-> [text |-> texts[i], type |-> type]]

extractEntities_uncapped(t) ==
    LET emails == match(t, "email")
        urls == match(t, "url")
        capitalizedWords == match(t, "capitalized")
    IN  Entities(emails, "EMAIL")
          \o Entities(urls, "URL")
          \o Entities(capitalizedWords, "PERSON")

extractEntities(t) ==
    LET emails == match(t, "email")
        urls == match(t, "url")
        capitalizedWords == match(t, "capitalized")
    IN  Entities(emails, "EMAIL")
          \o Entities(urls, "URL")
          \o Entities(slice0(capitalizedWords, PersonCap), "PERSON")

----------------------------------------------------------------------------
(* Inputs of the direct calls.                                             *)

RECURSIVE ConcatsOf(_, _)
\* every concatenation of exactly n fragments of frags
ConcatsOf(frags, n) ==
    IF n = 0 THEN {""}
    ELSE {s \o f : s \in ConcatsOf(frags, n - 1), f \in frags}

\* every concatenation of at most n fragments of frags
Concats(frags, n) == UNION {ConcatsOf(frags, k) : k \in 0..n}

ClassifyFrags ==
    {"sports", "Game", "TEAM", "tech", "Software", "computer", "BUSINESS", "market",
     "economy", "health", "Medical", "doctor", "tea", "m", " ", "gam"}

ClassifyTexts == Concats(ClassifyFrags, MaxFrags)

SentimentFrags ==
    {"good", "GREAT", "excellent", "amazing", "Love", "wonderful", "best", "happy",
     "bad", "Terrible", "awful", "hate", "WORST", "sad", "poor", "disappointing",
     "ba", "d", " "}

SentimentTexts == Concats(SentimentFrags, MaxFrags)

\* every string of at most MaxSummaryLen characters, each a letter or a space
SummaryTexts == Concats({"a", " "}, MaxSummaryLen)

\* the example of the specification's section 8
SampleEntityText == "contact a@b.com or https://x.io, Alice Smith"

EntityFrags ==
    {"a@b.com", "https://x.io", "http://y", "Alice", "Smith", " ", ",", ".", "x", "@", "B9"}

\* a text with more matches of every pattern than capitalizedWords keeps
ManyEntitiesText ==
    "Al,Bo,Cy,Di a@b.io c@d.io e@f.io g@h.io http://a http://b http://c http://d"

EntityTexts == Concats(EntityFrags, MaxEntityFrags) \cup {SampleEntityText, ManyEntitiesText}

NoCall == [fn |-> "none", arg |-> "", val |-> ""]

----------------------------------------------------------------------------
(* The heuristics called directly.                                         *)

CallClassify ==
    /\ ret.fn = "none"
    /\ \E t \in ClassifyTexts :
        /\ text' = t
        /\ ret' = [fn |-> "classifyText", arg |-> t, val |-> classifyText(t)]
        /\ UNCHANGED <<request, response, bodyRead, appVars>>

CallSentiment ==
    /\ ret.fn = "none"
    /\ \E t \in SentimentTexts :
        /\ text' = t
        /\ ret' = [fn |-> "analyzeSentiment", arg |-> t, val |-> analyzeSentiment(t)]
        /\ UNCHANGED <<request, response, bodyRead, appVars>>

CallSummarize ==
    /\ ret.fn = "none"
    /\ \E t \in SummaryTexts :
        /\ text' = t
        /\ ret' = [fn |-> "summarizeText", arg |-> t, val |-> summarizeText(t)]
        /\ UNCHANGED <<request, response, bodyRead, appVars>>

CallExtractEntities ==
    /\ ret.fn = "none"
    /\ \E t \in EntityTexts :
        /\ text' = t
        /\ ret' = [fn |-> "extractEntities", arg |-> t, val |-> extractEntities(t)]
        /\ UNCHANGED <<request, response, bodyRead, appVars>>

\* summarizeText applied to what summarizeText returned
CallSummarizeAgain ==
    /\ ret.fn = "summarizeText"
    /\ ret' = [fn |-> "summarizeText.summarizeText", arg |-> ret.val, val |-> summarizeText(ret.val)]
    /\ UNCHANGED <<text, request, response, bodyRead, appVars>>

NoRequest == [method |-> "none"]

NoResponse == [status |-> 0]

InitHeuristics ==
    /\ text = ""
    /\ ret = NoCall
    /\ request = NoRequest
    /\ response = NoResponse
    /\ bodyRead = FALSE
    /\ AppAtRest

NextHeuristics ==
    CallClassify \/ CallSentiment \/ CallExtractEntities \/ CallSummarize \/ CallSummarizeAgain

SpecHeuristics == InitHeuristics /\ [][NextHeuristics]_vars

----------------------------------------------------------------------------
(* The endpoint: Deno.serve(async (req) => ...).                           *)
(*                                                                         *)
(* A JSON value is a record tagged by t: "undefined" (an absent key),      *)
(* "null", "number", "string" (with its text v) or "object" (with the      *)
(* three keys the handler destructures).  A body is either text that is    *)
(* not JSON, or JSON text with its value.                                  *)

Undefined == [t |-> "undefined"]

JNull == [t |-> "null"]

JNumber == [t |-> "number"]

JTrue == [t |-> "boolean"]

JArray == [t |-> "array"]

JString(str) == [t |-> "string", v |-> str]

JObject(taskId, fileContent, annotationType) ==
    [t |-> "object", task_id |-> taskId, file_content |-> fileContent,
     annotation_type |-> annotationType]

MalformedBody == [syntax |-> "malformed"]

JsonBody(value) == [syntax |-> "json", value |-> value]

corsHeaders ==
    { <<"Access-Control-Allow-Origin", "*">>,
      <<"Access-Control-Allow-Methods", "GET, POST, PUT, DELETE, OPTIONS">>,
      <<"Access-Control-Allow-Headers", "Content-Type, Authorization, X-Client-Info, Apikey">> }

\* the loop stops at Math.min(rows.length, MaxRows)
MaxRows == 100

\* Math.random() of the i-th row, in thousandths: the generator is a
\* deterministic sequence from a hidden seed; the seed is any of 0..MaxSeed
\* and the draws walk through the interval [0, 1)
random(seed, i) == (seed * 499 + i * 167) % 1000

\* Math.random() * 0.3 + 0.7, in thousandths
confidenceOf(r) == (r * 3) \div 10 + 700

\* Math.random() * 2 - 1, in thousandths
scoreOf(r) == r * 2 - 1000

\* value === str
is(value, str) == value.t = "string" /\ value.v = str

annotate_noDefault(row, annotation_type, r) ==
    IF is(annotation_type, "text-classification")
      THEN [text |-> row, category |-> classifyText(row), confidence |-> confidenceOf(r)]
    ELSE IF is(annotation_type, "sentiment-analysis")
      THEN [text |-> row, sentiment |-> analyzeSentiment(row), score |-> scoreOf(r)]
    ELSE IF is(annotation_type, "named-entity-recognition")
      THEN [text |-> row, entities |-> extractEntities(row)]
    ELSE [text |-> row, summary |-> summarizeText(row)]

annotate_byChance(row, annotation_type, r) ==
    IF is(annotation_type, "text-classification")
      THEN [text |-> row, category |-> IF r % 2 = 0 THEN classifyText(row) ELSE "General",
            confidence |-> confidenceOf(r)]
    ELSE IF is(annotation_type, "sentiment-analysis")
      THEN [text |-> row, sentiment |-> IF r % 2 = 0 THEN analyzeSentiment(row) ELSE "Neutral",
            score |-> scoreOf(r)]
    ELSE IF is(annotation_type, "named-entity-recognition")
      THEN [text |-> row, entities |-> extractEntities(row)]
    ELSE IF is(annotation_type, "summarization")
      THEN [text |-> row, summary |-> summarizeText(row)]
    ELSE [text |-> row, processed |-> TRUE]

\* the switch on annotation_type (strict equality with the four strings)
annotate(row, annotation_type, r) ==
    IF is(annotation_type, "text-classification")
      THEN [text |-> row, category |-> classifyText(row), confidence |-> confidenceOf(r)]
    ELSE IF is(annotation_type, "sentiment-analysis")
      THEN [text |-> row, sentiment |-> analyzeSentiment(row), score |-> scoreOf(r)]
    ELSE IF is(annotation_type, "named-entity-recognition")
      THEN [text |-> row, entities |-> extractEntities(row)]
    ELSE IF is(annotation_type, "summarization")
      THEN [text |-> row, summary |-> summarizeText(row)]
    ELSE [text |-> row, processed |-> TRUE]

keepRow_untrimmed(row) == row # ""

\* the filter's predicate: row => row.trim()
keepRow(row) == trim(row) # ""

\* file_content.split('\n').filter(row => row.trim())
rowsOf(file_content) == SelectSeq(split(file_content, "\n"), keepRow)

rowLimit_uncapped(rows) == Len(rows)

\* Math.min(rows.length, 100)
rowLimit(rows) == Min(Len(rows), MaxRows)

\* the for loop: one annotation per row, pushed in order
annotationsOf(rows, annotation_type, seed) ==
    [i \in 1..rowLimit(rows) |-> annotate(rows[i], annotation_type, random(seed, i))]

\* a key of the parsed body as the destructuring reads it: a key of a
\* value that is no object is undefined
property(value, key) ==
    IF value.t # "object" THEN Undefined
    ELSE CASE key = "task_id" -> value.task_id
           [] key = "file_content" -> value.file_content
           [] key = "annotation_type" -> value.annotation_type

okResponse(task_id, annotations) ==
    [status |-> 200,
     headers |-> corsHeaders \cup {<<"Content-Type", "application/json">>},
     body |-> [success |-> TRUE, task_id |-> task_id, annotations |-> annotations,
               total_processed |-> Len(annotations)]]

errorResponse_serverError(message) ==
    [status |-> 500,
     headers |-> corsHeaders \cup {<<"Content-Type", "application/json">>},
     body |-> [success |-> FALSE, error |-> message]]

\* the catch block
errorResponse(message) ==
    [status |-> 400,
     headers |-> corsHeaders \cup {<<"Content-Type", "application/json">>},
     body |-> [success |-> FALSE, error |-> message]]

\* the try block: what it returns, or the response of the catch block for
\* what it throws
tryBlock(req, seed) ==
    IF req.body.syntax # "json"
      THEN errorResponse("SyntaxError: Unexpected token in JSON")
    ELSE IF req.body.value.t = "null"
      THEN errorResponse("TypeError: Cannot destructure property 'task_id' of null")
    ELSE LET task_id == property(req.body.value, "task_id")
             file_content == property(req.body.value, "file_content")
             annotation_type == property(req.body.value, "annotation_type")
         IN  IF file_content.t \in {"undefined", "null"}
               THEN errorResponse("TypeError: Cannot read properties of undefined (reading 'split')")
             ELSE IF file_content.t # "string"
               THEN errorResponse("TypeError: file_content.split is not a function")
             ELSE okResponse(task_id,
                             annotationsOf(rowsOf(file_content.v), annotation_type, seed))

preflightResponse == [status |-> 200, headers |-> corsHeaders, body |-> JNull]

handler_parseFirst(req, seed) ==
    IF req.body.syntax # "json"
      THEN [response |-> errorResponse("SyntaxError: Unexpected token in JSON"), bodyRead |-> TRUE]
    ELSE IF req.method = "OPTIONS"
      THEN [response |-> preflightResponse, bodyRead |-> TRUE]
    ELSE [response |-> tryBlock(req, seed), bodyRead |-> TRUE]

\* the handler: its Response, and whether it read the body (req.json())
handler(req, seed) ==
    IF req.method = "OPTIONS"
      THEN [response |-> preflightResponse, bodyRead |-> FALSE]
    ELSE [response |-> tryBlock(req, seed), bodyRead |-> TRUE]

----------------------------------------------------------------------------
(* The requests served.                                                    *)

\* the i-th row of a long file: two letters, different for different i
LongRow(i) == CharAt(LowerLetters, (i % 26) + 1) \o CharAt(LowerLetters, (i \div 26) + 1)

\* a long file has a blank row after every tenth row
LongLine(i) == LongRow(i) \o "\n" \o (IF i % 10 = 0 THEN " \n" ELSE "")

RECURSIVE LongLines(_, _)
\* the rows a..b of a long file
LongLines(a, b) ==
    IF a > b THEN ""
    ELSE IF a = b THEN LongLine(a)
    ELSE LongLines(a, (a + b) \div 2) \o LongLines((a + b) \div 2 + 1, b)

\* a file of n non-blank rows
LongContent(n) == LongLines(1, n)

ShortContents == Concats({"a", " ", "\n"}, MaxContentLen)

\* the example of the specification's section 8
SampleContent == "a\n\nb\n \nc"

SampleContents ==
    { SampleContent,
      "Great game\r\n\t\r\n bad market today \n",
      SampleEntityText \o "\n" \o "one two three four five six seven eight nine ten eleven" }

LongContents ==
    {LongContent(n) : n \in {MaxRows - 1, MaxRows, MaxRows + 1, MaxRows + ExtraRows}}

Contents == ShortContents \cup SampleContents \cup LongContents

AnnotationTypes ==
    { JString("text-classification"), JString("sentiment-analysis"),
      JString("named-entity-recognition"), JString("summarization"),
      JString("image-tagging"), JNumber, JNull, Undefined }

Bodies ==
    {MalformedBody, JsonBody(JNull), JsonBody(JNumber), JsonBody(JArray), JsonBody(JString("a"))}
      \cup { JsonBody(JObject(taskId, fileContent, annotationType)) :
               taskId \in {JString("task-1"), Undefined},
               fileContent \in {Undefined, JNull, JNumber, JTrue, JArray} \cup {JString(c) : c \in Contents},
               annotationType \in AnnotationTypes }

Requests == [method : {"OPTIONS", "POST", "PUT"}, body : Bodies]

\* a request arrives
Receive ==
    /\ request.method = "none"
    /\ \E req \in Requests : request' = req
    /\ response' = NoResponse
    /\ bodyRead' = FALSE
    /\ UNCHANGED <<text, ret, appVars>>

\* the handler runs on the request and returns its Response
Serve ==
    /\ request.method # "none"
    /\ response.status = 0
    /\ \E seed \in 0..MaxSeed :
         \E h \in {handler(request, seed)} :
            /\ response' = h.response
            /\ bodyRead' = h.bodyRead
    /\ UNCHANGED <<text, ret, request, appVars>>

\* the Response is sent; the server waits for the next request
Respond ==
    /\ response.status # 0
    /\ request' = NoRequest
    /\ response' = NoResponse
    /\ bodyRead' = FALSE
    /\ UNCHANGED <<text, ret, appVars>>

InitEndpoint ==
    /\ text = ""
    /\ ret = NoCall
    /\ request = NoRequest
    /\ response = NoResponse
    /\ bodyRead = FALSE
    /\ AppAtRest

NextEndpoint == Receive \/ Serve \/ Respond

SpecEndpoint == InitEndpoint /\ [][NextEndpoint]_vars

----------------------------------------------------------------------------
(* Properties of the heuristics, stated without the operators above.       *)

\* c with an upper-case letter replaced by its lower-case letter
Fold(c) == IF c \in Upper THEN LowerOf[c] ELSE c

\* kw occurs in t as a substring, letter case ignored
Occurs(kw, t) ==
    \E i \in 1..(Len(t) - Len(kw) + 1) :
        \A j \in 1..Len(kw) : Fold(CharAt(t, i + j - 1)) = CharAt(kw, j)

\* the keyword sets of classifyText, in their order of precedence
KeywordSets ==
    << [category |-> "Sports",     keywords |-> {"sports", "game", "team"}],
       [category |-> "Technology", keywords |-> {"tech", "software", "computer"}],
       [category |-> "Business",   keywords |-> {"business", "market", "economy"}],
       [category |-> "Health",     keywords |-> {"health", "medical", "doctor"}] >>

Matches(k, t) == \E kw \in KeywordSets[k].keywords : Occurs(kw, t)

HasWord(words, t) == \E w \in words : Occurs(w, t)

\* the positions of the spaces of t
Spaces(t) == {i \in 1..Len(t) : CharAt(t, i) = " "}

\* the number of tokens that splitting t on a single space gives
Tokens(t) == Cardinality(Spaces(t)) + 1

\* the position of the n-th space of t
NthSpace(t, n) ==
    CHOOSE p \in Spaces(t) : Cardinality({q \in Spaces(t) : q < p}) = n - 1

(* C3: classifyText returns one of the five categories; the category is the
   first keyword set, in the order Sports, Technology, Business, Health, that
   has a keyword occurring in the text (case ignored), and General exactly
   when no keyword of any set occurs. *)
C3_ClassifyPrecedence ==
    ret.fn = "classifyText" =>
        /\ ret.val \in {"Sports", "Technology", "Business", "Health", "General"}
        /\ \A k \in 1..4 :
              (ret.val = KeywordSets[k].category)
                <=> (Matches(k, text) /\ \A j \in 1..(k - 1) : ~Matches(j, text))
        /\ (ret.val = "General") <=> (\A k \in 1..4 : ~Matches(k, text))

\* a text with keywords of several sets, in upper case too, got the first set
C3_Witness ==
    /\ ret.fn = "classifyText"
    /\ Matches(1, text) /\ Matches(3, text)
    /\ ~includes(text, "game") /\ ~includes(text, "team") /\ ~includes(text, "sports")
    /\ ret.val = "Sports"

(* C4: analyzeSentiment returns Positive exactly when a positive keyword and
   no negative keyword occurs, Negative exactly when a negative and no
   positive keyword occurs, and Neutral when both or neither occur. *)
C4_SentimentLabel ==
    ret.fn = "analyzeSentiment" =>
        LET pos == HasWord(positiveWords, text)
            neg == HasWord(negativeWords, text)
        IN  /\ (ret.val = "Positive") <=> (pos /\ ~neg)
            /\ (ret.val = "Negative") <=> (neg /\ ~pos)
            /\ (pos <=> neg) => ret.val = "Neutral"

\* a text with a positive and a negative keyword was labelled Neutral
C4_Witness ==
    /\ ret.fn = "analyzeSentiment"
    /\ HasWord(positiveWords, text) /\ HasWord(negativeWords, text)
    /\ ret.val = "Neutral"

(* C6: summarizeText returns the line unchanged when it has at most 10
   space-delimited tokens; otherwise it returns the line up to its 10th
   space (the first 10 tokens with the spaces between them as they were)
   followed by "...". *)
C6_SummarizeShape ==
    ret.fn = "summarizeText" =>
        IF Tokens(text) <= 10
          THEN ret.val = text
          ELSE ret.val = SubSeq(text, 1, NthSpace(text, 10) - 1) \o "..."

\* a line of more than 10 tokens, empty tokens among the first 10, was cut
C6_Witness ==
    /\ ret.fn = "summarizeText"
    /\ Tokens(text) > 10
    /\ \E i \in Spaces(text) : i + 1 \in Spaces(text) /\ i + 1 < NthSpace(text, 10)
    /\ includes(ret.val, "a")
    /\ ret.val # text

(* C7: summarizeText is idempotent on lines of at most 10 tokens: applied to
   its own result it returns that result. *)
C7_SummarizeIdempotent ==
    (ret.fn = "summarizeText.summarizeText" /\ Tokens(text) <= 10) => ret.val = ret.arg

\* summarizeText was applied twice to a line of exactly 10 tokens
C7_Witness ==
    /\ ret.fn = "summarizeText.summarizeText"
    /\ Tokens(text) = 10
    /\ includes(text, "a")
    /\ ret.val = ret.arg

(* C5: on "contact a@b.com or https://x.io, Alice Smith" extractEntities
   returns exactly one EMAIL entity, "a@b.com", exactly one URL entity,
   "https://x.io", and at most 3 PERSON entities. *)
C5_SampleEntities ==
    (ret.fn = "extractEntities" /\ text = SampleEntityText) =>
        LET OfType(type) == SelectSeq(ret.val, LAMBDA e : e.type = type)
        IN  /\ OfType("EMAIL") = <<[text |-> "a@b.com", type |-> "EMAIL"]>>
            /\ OfType("URL") = <<[text |-> "https://x.io", type |-> "URL"]>>
            /\ Len(OfType("PERSON")) <= 3

\* the three entity types of extractEntities
EntityTypes == {"EMAIL", "URL", "PERSON"}

(* C11: every heuristic returns a value of its result type on every string
   (a category, a sentiment label, a list of typed entities whose texts
   occur in the input, a string), and on the empty string the defaults:
   General, Neutral, the empty entity list and the empty string. *)
C11_TotalWithDefaults ==
    /\ ret.fn = "classifyText" =>
          /\ ret.val \in {"Sports", "Technology", "Business", "Health", "General"}
          /\ ret.arg = "" => ret.val = "General"
    /\ ret.fn = "analyzeSentiment" =>
          /\ ret.val \in {"Positive", "Negative", "Neutral"}
          /\ ret.arg = "" => ret.val = "Neutral"
    /\ ret.fn = "extractEntities" =>
          /\ \A i \in 1..Len(ret.val) :
                /\ ret.val[i].type \in EntityTypes
                /\ ret.val[i].text # ""
                /\ includes(ret.arg, ret.val[i].text)
          /\ ret.arg = "" => Len(ret.val) = 0
    /\ ret.fn \in {"summarizeText", "summarizeText.summarizeText"} =>
          /\ Len(ret.val) <= Len(ret.arg) + Len("...")
          /\ ret.arg = "" => ret.val = ""

\* extractEntities was called on the empty string and found nothing
C11_Witness ==
    /\ ret.fn = "extractEntities"
    /\ ret.arg = ""
    /\ Len(ret.val) = 0

\* the texts of the entities of one type, in the order of the list
TextsOfType(entities, type) ==
    LET ofType == SelectSeq(entities, LAMBDA e : e.type = type)
    IN  [i \in 1..Len(ofType) |-> ofType[i].text]

\* the place of a type in the order extractEntities applies its patterns
TypeRank(type) == CASE type = "EMAIL" -> 1 [] type = "URL" -> 2 [] type = "PERSON" -> 3

(* C22: in the list extractEntities returns no URL entity precedes an
   EMAIL entity and no PERSON entity precedes an EMAIL or URL entity; the
   EMAIL and URL entities are all the matches of their patterns, and the
   PERSON entities are the first PersonCap matches of the
   capitalized-word pattern, each group in text order. *)
C22_EntityOrderAndCap ==
    ret.fn = "extractEntities" =>
        /\ \A i \in 1..Len(ret.val) : \A j \in i..Len(ret.val) :
               TypeRank(ret.val[i].type) <= TypeRank(ret.val[j].type)
        /\ TextsOfType(ret.val, "EMAIL") = match(ret.arg, "email")
        /\ TextsOfType(ret.val, "URL") = match(ret.arg, "url")
        /\ Len(TextsOfType(ret.val, "PERSON")) <= PersonCap
        /\ TextsOfType(ret.val, "PERSON")
              = SubSeq(match(ret.arg, "capitalized"), 1,
                       Min(PersonCap, Len(match(ret.arg, "capitalized"))))

\* a text with more than PersonCap matches of every pattern: all its
\* emails and URLs are returned, and PersonCap of its capitalized words
C22_Witness ==
    /\ ret.fn = "extractEntities"
    /\ Len(match(ret.arg, "capitalized")) > PersonCap
    /\ Len(TextsOfType(ret.val, "EMAIL")) > PersonCap
    /\ Len(TextsOfType(ret.val, "URL")) > PersonCap
    /\ TextsOfType(ret.val, "PERSON") = <<"Al", "Bo", "Cy">>

----------------------------------------------------------------------------
(* Properties of the endpoint, stated without split, trim and the loop.    *)

\* the handler has returned its Response for the request
Served == response.status # 0

\* the request's body is a JSON object whose file_content is a string
HasStringContent ==
    /\ request.body.syntax = "json"
    /\ request.body.value.t = "object"
    /\ request.body.value.file_content.t = "string"

Content == request.body.value.file_content.v

RequestedType == request.body.value.annotation_type

\* the lines of c: the text between consecutive newlines, before the first
\* and after the last
Lines(c) ==
    LET newlines == SelectSeq([i \in 1..Len(c) |-> i], LAMBDA i : CharAt(c, i) = "\n")
        count == Len(newlines)
    IN  [k \in 1..(count + 1) |->
            SubSeq(c, IF k = 1 THEN 1 ELSE newlines[k - 1] + 1,
                      IF k = count + 1 THEN Len(c) ELSE newlines[k] - 1)]

\* a row with a character that is not white space
NonBlank(row) == \E i \in 1..Len(row) : CharAt(row, i) \notin WhiteSpace

\* the rows of the request's file that are not blank, in input order
Surviving == SelectSeq(Lines(Content), NonBlank)

KnownTypes ==
    {"text-classification", "sentiment-analysis", "named-entity-recognition", "summarization"}

\* annotation a is the one computed from row for the requested type
IsAnnotationOf(a, row, type) ==
    /\ a.text = row
    /\ IF type.t # "string" \/ type.v \notin KnownTypes
         THEN a = [text |-> row, processed |-> TRUE]
       ELSE CASE type.v = "text-classification" ->
                   /\ DOMAIN a = {"text", "category", "confidence"}
                   /\ a.category = classifyText(row)
                   /\ a.confidence \in 700..999
              [] type.v = "sentiment-analysis" ->
                   /\ DOMAIN a = {"text", "sentiment", "score"}
                   /\ a.sentiment = analyzeSentiment(row)
                   /\ a.score \in (-1000)..999
              [] type.v = "named-entity-recognition" ->
                   /\ DOMAIN a = {"text", "entities"}
                   /\ a.entities = extractEntities(row)
              [] type.v = "summarization" ->
                   /\ DOMAIN a = {"text", "summary"}
                   /\ a.summary = summarizeText(row)

(* C1: for a file_content with n non-blank rows the endpoint returns exactly
   min(n, 100) annotations, total_processed is their number, and the i-th
   annotation is the one computed from the i-th surviving row. *)
C1_FirstHundredInOrder ==
    (Served /\ request.method # "OPTIONS" /\ HasStringContent) =>
        LET surviving == Surviving
            n == Len(surviving)
            annotations == response.body.annotations
        IN  /\ response.status = 200
            /\ response.body.success
            /\ Len(annotations) = (IF n <= 100 THEN n ELSE 100)
            /\ response.body.total_processed = Len(annotations)
            /\ \A i \in 1..Len(annotations) :
                  IsAnnotationOf(annotations[i], surviving[i], RequestedType)

\* a file of more than 100 non-blank rows, blank rows among them, was cut to
\* its first 100 rows
C1_Witness ==
    /\ Served /\ request.method = "POST" /\ HasStringContent
    /\ LET surviving == Surviving
       IN  /\ Len(surviving) = 150
           /\ Len(Lines(Content)) > Len(surviving) + 1
           /\ Len(response.body.annotations) = 100
           /\ response.body.total_processed = 100
           /\ response.body.annotations[100].text = surviving[100]
           /\ surviving[100] # surviving[101]

(* C2: every row that is empty or white space only is dropped and every
   other row is kept: the annotations' text fields are the non-blank rows
   themselves (the first 100 of them), untrimmed; "a\n\nb\n \nc" yields
   exactly 3 annotations. *)
C2_BlankRowsDropped ==
    (Served /\ request.method # "OPTIONS" /\ HasStringContent) =>
        LET annotations == response.body.annotations
            texts == [i \in 1..Len(annotations) |-> annotations[i].text]
            lines == SelectSeq(Lines(Content), LAMBDA row : TRUE)
            kept == {k \in 1..Len(lines) : NonBlank(lines[k])}
        IN  /\ \A i \in 1..Len(texts) : NonBlank(texts[i])
            /\ Len(texts) = Min(Cardinality(kept), 100)
            /\ Len(texts) <= Len(Surviving)
            /\ texts = SubSeq(Surviving, 1, Len(texts))
            /\ Content = SampleContent => texts = <<"a", "b", "c">>

\* the example was served: 3 annotations, for a, b and c
C2_Witness ==
    /\ Served /\ request.method = "POST" /\ HasStringContent
    /\ Content = SampleContent
    /\ Len(response.body.annotations) = 3
    /\ response.body.annotations[3].text = "c"

\* the request's body is no JSON, or its value has no string file_content
ProcessingFails == ~HasStringContent

(* C8: a request other than OPTIONS whose body is not valid JSON, or whose
   parsed body makes processing fail, gets status 400 and the body
   {success: false, error: <message>}: a Response, with no annotation. *)
C8_FailureIs400 ==
    (Served /\ request.method # "OPTIONS" /\ ProcessingFails) =>
        /\ DOMAIN response = {"status", "headers", "body"}
        /\ response.status = 400
        /\ DOMAIN response.body = {"success", "error"}
        /\ response.body.success = FALSE
        /\ Len(response.body.error) > 0
        /\ <<"Content-Type", "application/json">> \in response.headers

\* a body that is valid JSON but has no file_content was answered with 400
C8_Witness ==
    /\ Served /\ request.method = "POST"
    /\ request.body.syntax = "json"
    /\ request.body.value.t = "object"
    /\ request.body.value.file_content.t = "undefined"
    /\ response.status = 400
    /\ response.body.success = FALSE

(* C9: an OPTIONS request gets status 200, an empty body and the
   cross-origin headers whatever its payload; its body is never read and no
   annotation is computed. *)
C9_Preflight ==
    (Served /\ request.method = "OPTIONS") =>
        /\ response.status = 200
        /\ DOMAIN response.body = {"t"}
        /\ response.body.t = "null"
        /\ response.headers = corsHeaders
        /\ ~bodyRead

\* an OPTIONS request whose payload is no JSON was answered with 200
C9_Witness ==
    /\ Served /\ request.method = "OPTIONS"
    /\ request.body.syntax = "malformed"
    /\ response.status = 200
    /\ ~bodyRead

\* the requested annotation_type is none of the four known strings
UnknownType == RequestedType.t # "string" \/ RequestedType.v \notin KnownTypes

(* C10: for an annotation_type other than the four known ones, a missing
   one included, every surviving row (the first 100) is annotated as
   {text: row, processed: true} and the request succeeds with status 200. *)
C10_DefaultAnnotation ==
    (Served /\ request.method # "OPTIONS" /\ HasStringContent /\ UnknownType) =>
        /\ response.status = 200
        /\ response.body.success
        /\ LET surviving == Surviving
           IN  response.body.annotations =
                 [i \in 1..Min(Len(surviving), 100) |->
                     [text |-> surviving[i], processed |-> TRUE]]

\* a request without annotation_type got its rows back as processed
C10_Witness ==
    /\ Served /\ request.method = "POST" /\ HasStringContent
    /\ RequestedType.t = "undefined"
    /\ Len(response.body.annotations) >= 2
    /\ response.body.annotations[2] = [text |-> Surviving[2], processed |-> TRUE]
    /\ response.status = 200

----------------------------------------------------------------------------
(* The store: the tables of the schema behind their row-level security    *)
(* policies.  A row's id is the text of its position in its table        *)
(* (gen_random_uuid() never repeats) and created_at grows with it.        *)

\* the rows of users: id -> role
UserRoles ==
    [admin |-> "Admin", manager |-> "Manager", reviewer |-> "Reviewer", annotator |-> "Annotator"]

UserIds == DOMAIN UserRoles

\* EXISTS (SELECT 1 FROM users WHERE users.id = auth.uid() AND users.role IN (...))
hasRole(uid, roles) == uid \in UserIds /\ UserRoles[uid] \in roles

\* the error of a request refused by a policy
policyError(table) ==
    [message |-> "new row violates row-level security policy for table \"" \o table \o "\""]

\* the error of a request whose row breaks a NOT NULL or REFERENCES constraint
constraintError(table) ==
    [message |-> "insert on table \"" \o table \o "\" violates a constraint"]

\* the error of a request that did not reach the store
fetchError == [message |-> "TypeError: Failed to fetch"]

\* the error of maybeSingle() on more than one row
multipleRowsError == [message |-> "JSON object requested, multiple (or no) rows returned"]

withCheck_anyone(table, row, uid) == uid # NoUser

\* the WITH CHECK of the INSERT policy of a table (of its FOR ALL policy,
\* whose USING expression is also its check)
withCheck(table, row, uid) ==
    IF table = "annotations" THEN uid # NoUser /\ row.user_id = uid
    ELSE hasRole(uid, {"Admin", "Manager"})

\* the ids of the rows of a table
idsOf(st, table) == {st[table][i].id : i \in 1..Len(st[table])}

\* NOT NULL and REFERENCES of a new row
constraintsHold(st, table, row) ==
    CASE table = "dataset_files" -> row.dataset_id \in idsOf(st, "datasets")
      [] table = "annotation_tasks" ->
            row.project_id \in idsOf(st, "projects") /\ row.dataset_id \in idsOf(st, "datasets")
      [] table = "annotations" ->
            row.task_id \in idsOf(st, "annotation_tasks") /\ row.user_id \in UserIds
      [] OTHER -> TRUE

\* the rows as created: with their generated ids
created(st, table, rows) ==
    [i \in 1..Len(rows) |-> [id |-> natToString(Len(st[table]) + i)] @@ rows[i]]

\* supabase.from(table).insert(rows) by uid: the store afterwards, the rows
\* created and the error; one statement, so every row is inserted or none
insert(st, table, rows, uid, reached) ==
    IF ~reached
      THEN [store |-> st, data |-> JNull, error |-> fetchError]
    ELSE IF \E i \in 1..Len(rows) : ~withCheck(table, rows[i], uid)
      THEN [store |-> st, data |-> JNull, error |-> policyError(table)]
    ELSE IF \E i \in 1..Len(rows) : ~constraintsHold(st, table, rows[i])
      THEN [store |-> st, data |-> JNull, error |-> constraintError(table)]
    ELSE [store |-> [st EXCEPT ![table] = @ \o created(st, table, rows)],
          data |-> created(st, table, rows),
          error |-> JNull]

\* the USING of the SELECT policy of a table
using(table, row, uid) ==
    IF table = "annotations"
      THEN uid # NoUser /\ (row.user_id = uid \/ hasRole(uid, {"Admin", "Manager", "Reviewer"}))
    ELSE uid # NoUser

\* .order('created_at', { ascending: false })
newestFirst(rows) == [i \in 1..Len(rows) |-> rows[Len(rows) + 1 - i]]

\* supabase.from(table).select(): the rows uid may read, oldest first, and
\* the error
select(st, table, uid, reached) ==
    IF ~reached
      THEN [data |-> JNull, error |-> fetchError]
    ELSE [data |-> SelectSeq(st[table], LAMBDA row : using(table, row, uid)),
          error |-> JNull]

\* .eq('dataset_id', value) of a read
eqDatasetId(res, value) ==
    IF res.error # JNull THEN res
    ELSE [res EXCEPT !.data = SelectSeq(@, LAMBDA row : row.dataset_id = value)]

\* .maybeSingle(): the only row, null for no row, an error for several
maybeSingle(res) ==
    IF res.error # JNull THEN res
    ELSE IF Len(res.data) = 0 THEN [data |-> JNull, error |-> JNull]
    ELSE IF Len(res.data) = 1 THEN [data |-> res.data[1], error |-> JNull]
    ELSE [data |-> JNull, error |-> multipleRowsError]

\* .select().single() after an insert of one row: the created row
single(res) ==
    IF res.error # JNull THEN res
    ELSE [res EXCEPT !.data = res.data[1]]

----------------------------------------------------------------------------
(* A client: the Dashboard component.  An activation of an async function *)
(* is a record of the await it is suspended at (pc), the value its        *)
(* promise settled with (res, Pending until then) and its locals.         *)

\* a promise that is not settled yet
Pending == [t |-> "pending"]

Tabs == {"projects", "datasets", "tasks", "annotations"}

\* the collection loadData reads for a tab
tableOfTab(tab) == IF tab = "tasks" THEN "annotation_tasks" ELSE tab

\* useState(...) of Dashboard
DashboardMounted ==
    [mounted |-> TRUE, activeTab |-> "projects",
     projects |-> <<>>, datasets |-> <<>>, tasks |-> <<>>, annotations |-> <<>>,
     loading |-> TRUE, showUpload |-> FALSE, showAIAnnotator |-> FALSE,
     selectedDataset |-> JNull, console |-> ""]

\* profile.role === 'Admin' || profile.role === 'Manager'
canManage(c) == UserRoles[session[c]] \in {"Admin", "Manager"}

\* an overlay covers the dashboard
overlayShown(c) == dash[c].showUpload \/ dash[c].showAIAnnotator

\* loadData(): setLoading(true), then the read of the active tab's
\* collection is issued; site is where loadData was called from
loadData(d, ls, site) ==
    [dash |-> [d EXCEPT !.loading = TRUE],
     loads |-> Append(ls, [tab |-> d.activeTab, site |-> site, res |-> Pending])]

\* sequence s without its i-th element
without(s, i) == SubSeq(s, 1, i - 1) \o SubSeq(s, i + 1, Len(s))

\* a click on a tab other than the active one: setActiveTab, and the
\* effect on [user, activeTab] calls loadData
setActiveTab(c) ==
    /\ dash[c].mounted
    /\ session[c] # NoUser
    /\ ~overlayShown(c)
    /\ Len(loads[c]) < MaxLoads
    /\ \E tab \in Tabs \ {dash[c].activeTab} :
         LET l == loadData([dash[c] EXCEPT !.activeTab = tab], loads[c], "effect")
         IN  /\ dash' = [dash EXCEPT ![c] = l.dash]
             /\ loads' = [loads EXCEPT ![c] = l.loads]
    /\ UNCHANGED <<edgeVars, store, session, upload, submits, annotator, runs>>

\* the read of loadProjects / loadDatasets / loadTasks / loadAnnotations
readOfTab(c, tab, reached) ==
    LET res == select(store, tableOfTab(tab), session[c], reached)
    IN  IF res.error # JNull THEN res
        ELSE IF tab = "annotations"
          THEN [res EXCEPT !.data =
                  newestFirst(SelectSeq(@, LAMBDA row : row.user_id = session[c]))]
        ELSE [res EXCEPT !.data = newestFirst(@)]

\* the store answers the read of the i-th load in flight, or the request
\* fails to reach it
StoreSettlesLoadAt(c, i) ==
    /\ i \in 1..Len(loads[c])
    /\ loads[c][i].res = Pending
    /\ \E reached \in BOOLEAN :
         loads' = [loads EXCEPT ![c][i].res = readOfTab(c, loads[c][i].tab, reached)]
    /\ UNCHANGED <<edgeVars, store, session, dash, upload, submits, annotator, runs>>

\* the store answers the read of a load, or the request fails to reach it
StoreSettlesLoad(c) == \E i \in 1..Len(loads[c]) : StoreSettlesLoadAt(c, i)

loadDataReturnsAt_stillLoading(c, i) ==
    /\ i \in 1..Len(loads[c])
    /\ loads[c][i].res # Pending
    /\ dash' = [dash EXCEPT ![c] =
          IF loads[c][i].res.error # JNull
            THEN [@ EXCEPT !.console = loads[c][i].res.error.message]
            ELSE [@ EXCEPT ![loads[c][i].tab] = loads[c][i].res.data, !.loading = FALSE]]
    /\ loads' = [loads EXCEPT ![c] = without(@, i)]
    /\ UNCHANGED <<edgeVars, store, session, upload, submits, annotator, runs>>

\* loadX of the i-th load after its await, then the catch and the finally
\* of loadData
loadDataReturnsAt(c, i) ==
    /\ i \in 1..Len(loads[c])
    /\ loads[c][i].res # Pending
    /\ dash' = [dash EXCEPT ![c] =
          IF ~@.mounted
            THEN @
          ELSE IF loads[c][i].res.error # JNull
            THEN [@ EXCEPT !.console = loads[c][i].res.error.message, !.loading = FALSE]
            ELSE [@ EXCEPT ![loads[c][i].tab] = loads[c][i].res.data, !.loading = FALSE]]
    /\ loads' = [loads EXCEPT ![c] = without(@, i)]
    /\ UNCHANGED <<edgeVars, store, session, upload, submits, annotator, runs>>

\* a load returns
loadDataReturns(c) == \E i \in 1..Len(loads[c]) : loadDataReturnsAt(c, i)

----------------------------------------------------------------------------
(* A client: the DatasetUpload overlay.                                    *)

\* the text of the files a user may select
FileContents == {"", "good \"game\"\n \na@b.com", LongContent(MaxRows + ExtraRows)}

\* the File objects a user may select
Files == {[name |-> "f.csv", content |-> content, size |-> Len(content)] : content \in FileContents}

\* what a user may type as the dataset name
DatasetNames == {"d"}

\* useState(...) of DatasetUpload
UploadMounted ==
    [mounted |-> TRUE, datasetName |-> "", file |-> JNull, loading |-> FALSE, error |-> ""]

\* the Upload Dataset button of the datasets tab
openUpload(c) ==
    /\ dash[c].mounted
    /\ canManage(c)
    /\ dash[c].activeTab = "datasets"
    /\ ~dash[c].loading
    /\ ~overlayShown(c)
    /\ Len(submits[c]) = 0
    /\ dash' = [dash EXCEPT ![c].showUpload = TRUE]
    /\ upload' = [upload EXCEPT ![c] = UploadMounted]
    /\ UNCHANGED <<edgeVars, store, session, loads, submits, annotator, runs>>

\* the dataset name is typed (the input is disabled while loading)
setDatasetName(c) ==
    /\ upload[c].mounted
    /\ ~upload[c].loading
    /\ \E name \in (DatasetNames \cup {""}) \ {upload[c].datasetName} :
         upload' = [upload EXCEPT ![c].datasetName = name]
    /\ UNCHANGED <<edgeVars, store, session, dash, loads, submits, annotator, runs>>

\* a file is selected, or the selection is cleared
setFile(c) ==
    /\ upload[c].mounted
    /\ ~upload[c].loading
    /\ \E file \in (Files \cup {JNull}) \ {upload[c].file} :
         upload' = [upload EXCEPT ![c].file = file]
    /\ UNCHANGED <<edgeVars, store, session, dash, loads, submits, annotator, runs>>

\* disabled={loading || !datasetName || !file} of the submit button
uploadDisabled(c) ==
    upload[c].loading \/ upload[c].datasetName = "" \/ upload[c].file = JNull

\* disabled={loading} of the Cancel and X buttons of both overlays
closeDisabled(loading) == loading

handleSubmit_unchecked(c) ==
    /\ upload[c].mounted
    /\ Len(submits[c]) < MaxSubmits
    /\ Len(store.datasets) < MaxDatasets
    /\ upload' = [upload EXCEPT ![c].loading = TRUE, ![c].error = ""]
    /\ submits' = [submits EXCEPT ![c] =
          Append(@, [pc |-> "text", res |-> Pending, file |-> upload[c].file,
                     datasetName |-> upload[c].datasetName,
                     fileContent |-> "", dataset |-> JNull])]
    /\ UNCHANGED <<edgeVars, store, session, dash, loads, annotator, runs>>

\* handleSubmit up to its first await, file.text()
handleSubmit(c) ==
    /\ upload[c].mounted
    /\ Len(submits[c]) < MaxSubmits
    /\ Len(store.datasets) < MaxDatasets
    /\ IF upload[c].file = JNull
         THEN /\ upload' = [upload EXCEPT ![c].error = "Please select a file"]
              /\ UNCHANGED submits
         ELSE /\ upload' = [upload EXCEPT ![c].loading = TRUE, ![c].error = ""]
              /\ submits' = [submits EXCEPT ![c] =
                    Append(@, [pc |-> "text", res |-> Pending, file |-> upload[c].file,
                               datasetName |-> upload[c].datasetName,
                               fileContent |-> "", dataset |-> JNull])]
    /\ UNCHANGED <<edgeVars, store, session, dash, loads, annotator, runs>>

\* the form is submitted with its button
clickUpload(c) ==
    /\ upload[c].mounted
    /\ ~uploadDisabled(c)
    /\ handleSubmit(c)

uploadRows_untrimmed(fileContent) ==
    SelectSeq(split(fileContent, "\n"), LAMBDA row : row # "")

\* fileContent.split('\n').filter(row => row.trim()) of handleSubmit
uploadRows(fileContent) ==
    SelectSeq(split(fileContent, "\n"), LAMBDA row : trim(row) # "")

settledSubmit_oldestDataset(c, a, reached) ==
    CASE a.pc = "text" -> [store |-> store, data |-> a.file.content, error |-> JNull]
      [] a.pc = "insertDataset" ->
            single(insert(store, "datasets", <<[dataset_name |-> a.datasetName]>>,
                          session[c], reached))
      [] a.pc = "insertFile" ->
            insert(store, "dataset_files",
                   <<[dataset_id |-> store.datasets[1].id, file_name |-> a.file.name,
                      file_content |-> a.fileContent, file_size |-> a.file.size,
                      row_count |-> Len(uploadRows(a.fileContent))]>>,
                   session[c], reached)

\* what the promise a submission awaits settles with, and the store then
settledSubmit(c, a, reached) ==
    CASE a.pc = "text" -> [store |-> store, data |-> a.file.content, error |-> JNull]
      [] a.pc = "insertDataset" ->
            single(insert(store, "datasets", <<[dataset_name |-> a.datasetName]>>,
                          session[c], reached))
      [] a.pc = "insertFile" ->
            insert(store, "dataset_files",
                   <<[dataset_id |-> a.dataset.id, file_name |-> a.file.name,
                      file_content |-> a.fileContent, file_size |-> a.file.size,
                      row_count |-> Len(uploadRows(a.fileContent))]>>,
                   session[c], reached)

\* the file is read, or the store answers an insert of a submission
SettleSubmit(c) ==
    \E i \in 1..Len(submits[c]) :
       LET a == submits[c][i]
       IN  /\ a.res = Pending
           /\ \E reached \in (IF a.pc = "text" THEN {TRUE} ELSE BOOLEAN) :
                LET r == settledSubmit(c, a, reached)
                IN  /\ store' = r.store
                    /\ submits' = [submits EXCEPT ![c][i].res = [data |-> r.data, error |-> r.error]]
           /\ UNCHANGED <<edgeVars, session, dash, loads, upload, annotator, runs>>

submitThrows_rollingBack(c, i, err) ==
    /\ upload' = [upload EXCEPT ![c] =
          IF @.mounted
            THEN [@ EXCEPT !.error = IF err.message # "" THEN err.message
                                      ELSE "Failed to upload dataset",
                           !.loading = FALSE]
            ELSE @]
    /\ submits' = [submits EXCEPT ![c] = without(@, i)]
    /\ store' = IF submits[c][i].pc = "insertFile"
                  THEN [store EXCEPT !.datasets =
                          SelectSeq(@, LAMBDA d : d.id # submits[c][i].dataset.id)]
                  ELSE store
    /\ UNCHANGED <<edgeVars, session, dash, loads, annotator, runs>>

\* catch (err) { setError(err.message || ...) } finally { setLoading(false) }
\* of handleSubmit; the activation ends
submitThrows(c, i, err) ==
    /\ upload' = [upload EXCEPT ![c] =
          IF @.mounted
            THEN [@ EXCEPT !.error = IF err.message # "" THEN err.message
                                      ELSE "Failed to upload dataset",
                           !.loading = FALSE]
            ELSE @]
    /\ submits' = [submits EXCEPT ![c] = without(@, i)]
    /\ UNCHANGED <<edgeVars, store, session, dash, loads, annotator, runs>>

\* after await file.text(): the insert into datasets is issued
submitAfterText(c) ==
    \E i \in 1..Len(submits[c]) :
       LET a == submits[c][i]
       IN  /\ a.pc = "text" /\ a.res # Pending
           /\ submits' = [submits EXCEPT ![c][i] =
                 [a EXCEPT !.pc = "insertDataset", !.res = Pending, !.fileContent = a.res.data]]
           /\ UNCHANGED <<edgeVars, store, session, dash, loads, upload, annotator, runs>>

\* after the insert into datasets: throw, or the insert into dataset_files
\* is issued
submitAfterDataset(c) ==
    \E i \in 1..Len(submits[c]) :
       LET a == submits[c][i]
       IN  /\ a.pc = "insertDataset" /\ a.res # Pending
           /\ IF a.res.error # JNull
                THEN submitThrows(c, i, a.res.error)
                ELSE /\ submits' = [submits EXCEPT ![c][i] =
                           [a EXCEPT !.pc = "insertFile", !.res = Pending, !.dataset = a.res.data]]
                     /\ UNCHANGED <<edgeVars, store, session, dash, loads, upload, annotator, runs>>

\* onSuccess of DatasetUpload: loadData(); setShowUpload(false)
\* then onClose: setShowUpload(false)
\* (the setLoading(false) of the finally finds the overlay unmounted)
uploadSucceeded(c, i) ==
    LET l == loadData(dash[c], loads[c], "onSuccess")
    IN  /\ dash' = [dash EXCEPT ![c] = [l.dash EXCEPT !.showUpload = FALSE]]
        /\ loads' = [loads EXCEPT ![c] = l.loads]
        /\ upload' = [upload EXCEPT ![c] = Unmounted]
        /\ submits' = [submits EXCEPT ![c] = without(@, i)]
        /\ UNCHANGED <<edgeVars, store, session, annotator, runs>>

\* after the insert into dataset_files: throw, or onSuccess(); onClose()
submitAfterFile(c) ==
    \E i \in 1..Len(submits[c]) :
       LET a == submits[c][i]
       IN  /\ a.pc = "insertFile" /\ a.res # Pending
           /\ IF a.res.error # JNull
                THEN submitThrows(c, i, a.res.error)
                ELSE uploadSucceeded(c, i)

\* Cancel or X of DatasetUpload: onClose
closeUpload(c) ==
    /\ upload[c].mounted
    /\ ~closeDisabled(upload[c].loading)
    /\ dash' = [dash EXCEPT ![c].showUpload = FALSE]
    /\ upload' = [upload EXCEPT ![c] = Unmounted]
    /\ UNCHANGED <<edgeVars, store, session, loads, submits, annotator, runs>>

----------------------------------------------------------------------------
(* JSON.stringify of an annotation result.  A number is given in          *)
(* thousandths, as confidenceOf and scoreOf give it.                      *)

\* the shortest decimal text of n / 1000
numberToString(n) ==
    LET a == IF n < 0 THEN 0 - n ELSE n
        frac == a % 1000
        digits == natToString(1000 + frac)
        fraction == IF frac = 0 THEN ""
                    ELSE IF frac % 100 = 0 THEN "." \o SubSeq(digits, 2, 2)
                    ELSE IF frac % 10 = 0 THEN "." \o SubSeq(digits, 2, 3)
                    ELSE "." \o SubSeq(digits, 2, 4)
    IN  (IF n < 0 THEN "-" ELSE "") \o natToString(a \div 1000) \o fraction

\* a character inside a JSON string
escapeChar(ch) ==
    CASE ch = "\"" -> "\\\""
      [] ch = "\\" -> "\\\\"
      [] ch = "\n" -> "\\n"
      [] ch = "\t" -> "\\t"
      [] ch = "\r" -> "\\r"
      [] ch = "\f" -> "\\f"
      [] OTHER -> ch

stringifyString(str) ==
    "\"" \o join([i \in 1..Len(str) |-> escapeChar(CharAt(str, i))], "") \o "\""

\* "key":value
member(key, value) == stringifyString(key) \o ":" \o value

stringifyEntity(e) ==
    "{" \o member("text", stringifyString(e.text)) \o ","
        \o member("type", stringifyString(e.type)) \o "}"

\* JSON.stringify(annotation): the keys in the order the endpoint set them
stringify(a) ==
    LET keys == DOMAIN a
        rest == IF "category" \in keys
                  THEN member("category", stringifyString(a.category)) \o ","
                         \o member("confidence", numberToString(a.confidence))
                ELSE IF "sentiment" \in keys
                  THEN member("sentiment", stringifyString(a.sentiment)) \o ","
                         \o member("score", numberToString(a.score))
                ELSE IF "entities" \in keys
                  THEN member("entities",
                              "[" \o join([i \in 1..Len(a.entities) |-> stringifyEntity(a.entities[i])], ",")
                                  \o "]")
                ELSE IF "summary" \in keys
                  THEN member("summary", stringifyString(a.summary))
                ELSE member("processed", "true")
    IN  "{" \o member("text", stringifyString(a.text)) \o "," \o rest \o "}"

----------------------------------------------------------------------------
(* A client: the AIAnnotator overlay.                                      *)

\* the options of the annotation type select
SelectableTypes ==
    {"text-classification", "sentiment-analysis", "named-entity-recognition", "summarization"}

\* useState(...) of AIAnnotator with its props; the effect of the mount
\* has called loadProjects, whose read is pending
AnnotatorMounted(dataset) ==
    [mounted |-> TRUE, datasetId |-> dataset.id,
     projectId |-> "", annotationType |-> "text-classification",
     loading |-> FALSE, error |-> "", progress |-> "", projects |-> <<>>,
     loadProjects |-> Pending]

\* the loadProjects activation has returned
Returned == [t |-> "returned"]

\* the AI Annotate button of a row of the datasets tab
openAIAnnotator(c) ==
    /\ dash[c].mounted
    /\ dash[c].activeTab = "datasets"
    /\ ~dash[c].loading
    /\ ~overlayShown(c)
    /\ Len(runs[c]) = 0
    /\ \E k \in 1..Len(dash[c].datasets) :
         /\ dash' = [dash EXCEPT ![c].selectedDataset = dash[c].datasets[k],
                                 ![c].showAIAnnotator = TRUE]
         /\ annotator' = [annotator EXCEPT ![c] = AnnotatorMounted(dash[c].datasets[k])]
    /\ UNCHANGED <<edgeVars, store, session, loads, upload, submits, runs>>

\* the store answers the read of loadProjects, or the request fails
StoreSettlesProjects(c) ==
    /\ annotator[c].mounted
    /\ annotator[c].loadProjects = Pending
    /\ \E reached \in BOOLEAN :
         LET res == select(store, "projects", session[c], reached)
         IN  annotator' = [annotator EXCEPT ![c].loadProjects =
                 IF res.error # JNull THEN res ELSE [res EXCEPT !.data = newestFirst(@)]]
    /\ UNCHANGED <<edgeVars, store, session, dash, loads, upload, submits, runs>>

\* loadProjects after its await: const { data } = ...; if (data) setProjects(data)
loadProjectsReturns(c) ==
    /\ annotator[c].mounted
    /\ annotator[c].loadProjects \notin {Pending, Returned}
    /\ annotator' = [annotator EXCEPT ![c] =
          IF annotator[c].loadProjects.error = JNull
            THEN [@ EXCEPT !.projects = annotator[c].loadProjects.data,
                           !.loadProjects = Returned]
            ELSE [@ EXCEPT !.loadProjects = Returned]]
    /\ UNCHANGED <<edgeVars, store, session, dash, loads, upload, submits, runs>>

\* an option of the project select is chosen (disabled while loading)
setProjectId(c) ==
    /\ annotator[c].mounted
    /\ ~annotator[c].loading
    /\ \E k \in 0..Len(annotator[c].projects) :
         LET chosen == IF k = 0 THEN "" ELSE annotator[c].projects[k].id
         IN  /\ chosen # annotator[c].projectId
             /\ annotator' = [annotator EXCEPT ![c].projectId = chosen]
    /\ UNCHANGED <<edgeVars, store, session, dash, loads, upload, submits, runs>>

\* an option of the annotation type select is chosen
setAnnotationType(c) ==
    /\ annotator[c].mounted
    /\ ~annotator[c].loading
    /\ \E type \in SelectableTypes \ {annotator[c].annotationType} :
         annotator' = [annotator EXCEPT ![c].annotationType = type]
    /\ UNCHANGED <<edgeVars, store, session, dash, loads, upload, submits, runs>>

annotateDisabled_ignoringLoading(c) == annotator[c].projectId = ""

\* disabled={loading || !projectId} of the Start AI Annotation button
annotateDisabled(c) == annotator[c].loading \/ annotator[c].projectId = ""

\* handleAnnotate up to its first await, the read of the dataset's file
handleAnnotate(c) ==
    /\ annotator[c].mounted
    /\ Len(runs[c]) < MaxRuns
    /\ Len(store.annotation_tasks) < MaxTasks
    /\ IF annotator[c].projectId = ""
         THEN /\ annotator' = [annotator EXCEPT ![c].error = "Please select a project"]
              /\ UNCHANGED runs
         ELSE /\ annotator' = [annotator EXCEPT ![c].loading = TRUE, ![c].error = "",
                                                ![c].progress = "Fetching dataset..."]
              /\ runs' = [runs EXCEPT ![c] =
                    Append(@, [pc |-> "selectFile", res |-> Pending,
                               projectId |-> annotator[c].projectId,
                               datasetId |-> annotator[c].datasetId,
                               annotationType |-> annotator[c].annotationType,
                               files |-> JNull, task |-> JNull, result |-> JNull,
                               user |-> JNull])]
    /\ UNCHANGED <<edgeVars, store, session, dash, loads, upload, submits>>

\* a click on the Start AI Annotation button
clickAnnotate(c) ==
    /\ annotator[c].mounted
    /\ ~annotateDisabled(c)
    /\ handleAnnotate(c)

\* the request handleAnnotate posts to the endpoint
annotateRequest(a) ==
    [method |-> "POST",
     body |-> JsonBody(JObject(JString(a.task.id), JString(a.files.file_content),
                               JString(a.annotationType)))]

\* a Response of the platform in front of the endpoint that is not OK
unavailableResponse ==
    [status |-> 503, headers |-> {}, body |-> [message |-> "Service Unavailable"]]

\* response.ok
ok(resp) == resp.status \in 200..299

\* what fetch settles with: a Response of the endpoint or of the platform,
\* or a rejection
fetched(req) ==
    {[data |-> handler(req, seed).response, error |-> JNull] : seed \in 0..MaxSeed}
      \cup {[data |-> unavailableResponse, error |-> JNull],
            [data |-> JNull, error |-> fetchError]}

\* what supabase.auth.getUser() settles with: the user of the session, or
\* no user when the request fails
gotUser(c) ==
    {[data |-> [user |-> [id |-> session[c]]], error |-> JNull],
     [data |-> [user |-> JNull], error |-> fetchError]}

annotationRows_oldestTask(a, user) ==
    [i \in 1..Len(a.result.annotations) |->
        [task_id |-> store.annotation_tasks[1].id,
         user_id |-> IF user.user = JNull THEN NoUser ELSE user.user.id,
         content |-> stringify(a.result.annotations[i])]]

annotationRows_reversed(a, user) ==
    [i \in 1..Len(a.result.annotations) |->
        [task_id |-> a.task.id,
         user_id |-> IF user.user = JNull THEN NoUser ELSE user.user.id,
         content |-> stringify(a.result.annotations[Len(a.result.annotations) + 1 - i])]]

\* result.annotations.map(...): the rows handleAnnotate inserts
annotationRows(a, user) ==
    [i \in 1..Len(a.result.annotations) |->
        [task_id |-> a.task.id,
         user_id |-> IF user.user = JNull THEN NoUser ELSE user.user.id,
         content |-> stringify(a.result.annotations[i])]]

\* what the promise a run awaits settles with, and the store then
settledRun(c, a) ==
    CASE a.pc = "selectFile" ->
            {[store |-> store] @@
               maybeSingle(eqDatasetId(select(store, "dataset_files", session[c], reached),
                                       a.datasetId))
               : reached \in BOOLEAN}
      [] a.pc = "insertTask" ->
            {single(insert(store, "annotation_tasks",
                           <<[project_id |-> a.projectId, dataset_id |-> a.datasetId]>>,
                           session[c], reached)) : reached \in BOOLEAN}
      [] a.pc = "fetch" -> {[store |-> store] @@ r : r \in fetched(annotateRequest(a))}
      [] a.pc = "getUser" -> {[store |-> store] @@ r : r \in gotUser(c)}
      [] a.pc = "insertAnnotations" ->
            {insert(store, "annotations", annotationRows(a, a.user), session[c], reached)
               : reached \in BOOLEAN}

\* the store, the endpoint or the auth service answers what a run awaits,
\* or the request fails
SettleRun(c) ==
    \E i \in 1..Len(runs[c]) :
       LET a == runs[c][i]
       IN  /\ a.res = Pending
           /\ a.pc # "timer"
           /\ \E r \in settledRun(c, a) :
                /\ store' = r.store
                /\ runs' = [runs EXCEPT ![c][i].res = [data |-> r.data, error |-> r.error]]
           /\ UNCHANGED <<edgeVars, session, dash, loads, upload, submits, annotator>>

\* setProgress(text) of a run that goes on to its next await
runProceeds(c, i, a, step) ==
    /\ runs' = [runs EXCEPT ![c][i] = a]
    /\ annotator' = [annotator EXCEPT ![c] =
          IF @.mounted THEN [@ EXCEPT !.progress = step] ELSE @]
    /\ UNCHANGED <<edgeVars, store, session, dash, loads, upload, submits>>

annotateThrows_stillLoading(c, i, err) ==
    /\ annotator' = [annotator EXCEPT ![c] =
          IF @.mounted
            THEN [@ EXCEPT !.error = IF err.message # "" THEN err.message
                                      ELSE "Failed to annotate with AI"]
            ELSE @]
    /\ runs' = [runs EXCEPT ![c] = without(@, i)]
    /\ UNCHANGED <<edgeVars, store, session, dash, loads, upload, submits>>

\* catch (err) { setError(err.message || ...); setLoading(false) } of
\* handleAnnotate; the activation ends
annotateThrows(c, i, err) ==
    /\ annotator' = [annotator EXCEPT ![c] =
          IF @.mounted
            THEN [@ EXCEPT !.error = IF err.message # "" THEN err.message
                                      ELSE "Failed to annotate with AI",
                           !.loading = FALSE]
            ELSE @]
    /\ runs' = [runs EXCEPT ![c] = without(@, i)]
    /\ UNCHANGED <<edgeVars, store, session, dash, loads, upload, submits>>

\* after the read of dataset_files: throw, or the insert of the task is
\* issued
annotateAfterFile(c) ==
    \E i \in 1..Len(runs[c]) :
       LET a == runs[c][i]
       IN  /\ a.pc = "selectFile" /\ a.res # Pending
           /\ IF a.res.error # JNull
                THEN annotateThrows(c, i, a.res.error)
              ELSE IF a.res.data = JNull
                THEN annotateThrows(c, i, [message |-> "No file found for this dataset"])
              ELSE runProceeds(c, i, [a EXCEPT !.pc = "insertTask", !.res = Pending,
                                                !.files = a.res.data],
                               "Creating annotation task...")

annotateAfterTask_firstTask(c) ==
    \E i \in 1..Len(runs[c]) :
       LET a == runs[c][i]
       IN  /\ a.pc = "insertTask" /\ a.res # Pending
           /\ IF a.res.error # JNull
                THEN annotateThrows(c, i, a.res.error)
                ELSE runProceeds(c, i, [a EXCEPT !.pc = "fetch", !.res = Pending,
                                                  !.task = store.annotation_tasks[1]],
                                 "Processing with AI...")

\* after the insert of the task: throw, or the endpoint is called
annotateAfterTask(c) ==
    \E i \in 1..Len(runs[c]) :
       LET a == runs[c][i]
       IN  /\ a.pc = "insertTask" /\ a.res # Pending
           /\ IF a.res.error # JNull
                THEN annotateThrows(c, i, a.res.error)
                ELSE runProceeds(c, i, [a EXCEPT !.pc = "fetch", !.res = Pending,
                                                  !.task = a.res.data],
                                 "Processing with AI...")

\* after fetch: throw, or result = await response.json() and getUser is
\* called
annotateAfterFetch(c) ==
    \E i \in 1..Len(runs[c]) :
       LET a == runs[c][i]
       IN  /\ a.pc = "fetch" /\ a.res # Pending
           /\ IF a.res.error # JNull
                THEN annotateThrows(c, i, a.res.error)
              ELSE IF ~ok(a.res.data)
                THEN annotateThrows(c, i, [message |-> "AI annotation failed"])
              ELSE runProceeds(c, i, [a EXCEPT !.pc = "getUser", !.res = Pending,
                                                !.result = a.res.data.body],
                               "Saving annotations...")

\* after getUser: the insert of the annotations is issued
annotateAfterUser(c) ==
    \E i \in 1..Len(runs[c]) :
       LET a == runs[c][i]
       IN  /\ a.pc = "getUser" /\ a.res # Pending
           /\ runProceeds(c, i, [a EXCEPT !.pc = "insertAnnotations", !.res = Pending,
                                            !.user = a.res.data],
                           annotator[c].progress)

annotateAfterInsert_ignoringError(c) ==
    \E i \in 1..Len(runs[c]) :
       LET a == runs[c][i]
       IN  /\ a.pc = "insertAnnotations" /\ a.res # Pending
           /\ runProceeds(c, i, [a EXCEPT !.pc = "timer", !.res = Pending], "Complete!")

\* after the insert of the annotations: throw, or the timer is set
annotateAfterInsert(c) ==
    \E i \in 1..Len(runs[c]) :
       LET a == runs[c][i]
       IN  /\ a.pc = "insertAnnotations" /\ a.res # Pending
           /\ IF a.res.error # JNull
                THEN annotateThrows(c, i, a.res.error)
                ELSE runProceeds(c, i, [a EXCEPT !.pc = "timer", !.res = Pending], "Complete!")

annotateTimerFires_withoutReload(c) ==
    \E i \in 1..Len(runs[c]) :
       /\ runs[c][i].pc = "timer"
       /\ dash' = [dash EXCEPT ![c].showAIAnnotator = FALSE, ![c].selectedDataset = JNull]
       /\ annotator' = [annotator EXCEPT ![c] = Unmounted]
       /\ runs' = [runs EXCEPT ![c] = without(@, i)]
       /\ UNCHANGED <<edgeVars, store, session, loads, upload, submits>>

\* the timer of a run fires: onSuccess() of AIAnnotator (loadData();
\* setShowAIAnnotator(false); setSelectedDataset(null)), then onClose()
annotateTimerFires(c) ==
    \E i \in 1..Len(runs[c]) :
       LET l == loadData(dash[c], loads[c], "onSuccess")
       IN  /\ runs[c][i].pc = "timer"
           /\ dash' = [dash EXCEPT ![c] =
                 [l.dash EXCEPT !.showAIAnnotator = FALSE, !.selectedDataset = JNull]]
           /\ loads' = [loads EXCEPT ![c] = l.loads]
           /\ annotator' = [annotator EXCEPT ![c] = Unmounted]
           /\ runs' = [runs EXCEPT ![c] = without(@, i)]
           /\ UNCHANGED <<edgeVars, store, session, upload, submits>>

\* Cancel or X of AIAnnotator: onClose
closeAnnotator(c) ==
    /\ annotator[c].mounted
    /\ ~closeDisabled(annotator[c].loading)
    /\ dash' = [dash EXCEPT ![c].showAIAnnotator = FALSE, ![c].selectedDataset = JNull]
    /\ annotator' = [annotator EXCEPT ![c] = Unmounted]
    /\ UNCHANGED <<edgeVars, store, session, loads, upload, submits, runs>>

----------------------------------------------------------------------------
(* One client working through the controls of the dashboard.              *)

\* the edge function is not called directly
EdgeAtRest ==
    /\ text = ""
    /\ ret = NoCall
    /\ request = NoRequest
    /\ response = NoResponse
    /\ bodyRead = FALSE

\* the projects table: empty, or with a project created earlier
ProjectSeeds == {<<>>, <<[id |-> "1", project_name |-> "p"]>>}

\* the Dashboard of a client just mounted: the effect has called loadData
DashboardsMounted(signedIn) ==
    /\ dash = [c \in Clients |-> IF c \in signedIn THEN DashboardMounted ELSE Unmounted]
    /\ loads = [c \in Clients |->
                  IF c \in signedIn
                    THEN <<[tab |-> "projects", site |-> "effect", res |-> Pending]>>
                    ELSE <<>>]
    /\ upload = [c \in Clients |-> Unmounted]
    /\ submits = [c \in Clients |-> <<>>]
    /\ annotator = [c \in Clients |-> Unmounted]
    /\ runs = [c \in Clients |-> <<>>]

\* the Dashboard of a client that, its projects loaded, has just opened
\* the datasets tab: the effect has called loadData
DatasetsTabsOpened(signedIn) ==
    /\ dash = [c \in Clients |->
                 IF c \in signedIn
                   THEN [DashboardMounted EXCEPT
                           !.activeTab = "datasets",
                           !.projects = readOfTab(c, "projects", TRUE).data]
                   ELSE Unmounted]
    /\ loads = [c \in Clients |->
                  IF c \in signedIn
                    THEN <<[tab |-> "datasets", site |-> "effect", res |-> Pending]>>
                    ELSE <<>>]
    /\ upload = [c \in Clients |-> Unmounted]
    /\ submits = [c \in Clients |-> <<>>]
    /\ annotator = [c \in Clients |-> Unmounted]
    /\ runs = [c \in Clients |-> <<>>]

InitApp ==
    /\ EdgeAtRest
    /\ \E seed \in ProjectSeeds : store = [EmptyStore EXCEPT !.projects = seed]
    /\ \E uid \in UserIds : session = [c \in Clients |-> IF c = 1 THEN uid ELSE NoUser]
    /\ DatasetsTabsOpened({1})

\* a step of a load of the Dashboard of client c
LoadStep(c) ==
    \/ StoreSettlesLoad(c)
    \/ loadDataReturns(c)

\* a step of the DatasetUpload of client c, but for the submission
UploadStep(c) ==
    \/ openUpload(c)
    \/ setDatasetName(c)
    \/ setFile(c)
    \/ SettleSubmit(c)
    \/ submitAfterText(c)
    \/ submitAfterDataset(c)
    \/ submitAfterFile(c)
    \/ closeUpload(c)

\* a step of the AIAnnotator of client c, but for the start of a run
AnnotatorStep(c) ==
    \/ openAIAnnotator(c)
    \/ StoreSettlesProjects(c)
    \/ loadProjectsReturns(c)
    \/ setProjectId(c)
    \/ setAnnotationType(c)
    \/ SettleRun(c)
    \/ annotateAfterFile(c)
    \/ annotateAfterTask(c)
    \/ annotateAfterFetch(c)
    \/ annotateAfterUser(c)
    \/ annotateAfterInsert(c)
    \/ annotateTimerFires(c)
    \/ closeAnnotator(c)

\* the overlays of the datasets tab, used through their controls
NextApp ==
    \E c \in Clients :
       \/ LoadStep(c)
       \/ UploadStep(c)
       \/ AnnotatorStep(c)
       \/ clickUpload(c)
       \/ clickAnnotate(c)

SpecApp == InitApp /\ [][NextApp]_vars

----------------------------------------------------------------------------
(* One client whose handlers are called directly on an overlay that is    *)
(* not loading, whether or not its required fields are filled in.         *)

\* handleSubmit is called: the form is submitted without its button
callHandleSubmit(c) ==
    /\ upload[c].mounted
    /\ ~upload[c].loading
    /\ handleSubmit(c)

\* handleAnnotate is called
callHandleAnnotate(c) ==
    /\ annotator[c].mounted
    /\ ~annotator[c].loading
    /\ handleAnnotate(c)

NextHandlers ==
    \E c \in Clients :
       \/ LoadStep(c)
       \/ UploadStep(c)
       \/ AnnotatorStep(c)
       \/ callHandleSubmit(c)
       \/ callHandleAnnotate(c)

SpecHandlers == InitApp /\ [][NextHandlers]_vars

----------------------------------------------------------------------------
(* One client switching between the tabs of the dashboard.                *)

InitDashboard ==
    /\ EdgeAtRest
    /\ \E seed \in ProjectSeeds : store = [EmptyStore EXCEPT !.projects = seed]
    /\ \E uid \in UserIds : session = [c \in Clients |-> IF c = 1 THEN uid ELSE NoUser]
    /\ DashboardsMounted({1})

NextDashboard ==
    \E c \in Clients :
       \/ setActiveTab(c)
       \/ StoreSettlesLoad(c)
       \/ loadDataReturns(c)

SpecDashboard == InitDashboard /\ [][NextDashboard]_vars

\* every request is answered or fails, and the event loop runs the
\* continuation of every settled promise
SpecDashboardFair ==
    SpecDashboard /\ \A c \in Clients : \A i \in 1..MaxLoads :
                        WF_vars(StoreSettlesLoadAt(c, i)) /\ WF_vars(loadDataReturnsAt(c, i))

----------------------------------------------------------------------------
(* Two clients annotating the same dataset.                               *)

\* the store after an Admin has created a project and uploaded a file as
\* a dataset
StoreWithFile(file) ==
    LET withProject == [EmptyStore EXCEPT !.projects = <<[id |-> "1", project_name |-> "p"]>>]
        withDataset == insert(withProject, "datasets", <<[dataset_name |-> "d"]>>,
                              "admin", TRUE).store
    IN  insert(withDataset, "dataset_files",
               <<[dataset_id |-> withDataset.datasets[1].id, file_name |-> file.name,
                  file_content |-> file.content, file_size |-> file.size,
                  row_count |-> Len(uploadRows(file.content))]>>,
               "admin", TRUE).store

UploadedStore == StoreWithFile(CHOOSE f \in Files : f.content # "")

\* a file of more rows than the endpoint processes
LongFile ==
    [name |-> "long.csv", content |-> LongContent(MaxRows + ExtraRows),
     size |-> Len(LongContent(MaxRows + ExtraRows))]

\* who is signed in at the two clients
RunSessions ==
    {[c \in Clients |-> IF c = 1 THEN first ELSE others] :
        first \in {"admin", "annotator"}, others \in {"manager", "reviewer"}}

\* the Dashboards of the clients show the loaded datasets tab
DatasetsTabsLoaded ==
    /\ dash = [c \in Clients |->
                 [DashboardMounted EXCEPT
                    !.activeTab = "datasets",
                    !.projects = readOfTab(c, "projects", TRUE).data,
                    !.datasets = readOfTab(c, "datasets", TRUE).data,
                    !.loading = FALSE]]
    /\ loads = [c \in Clients |-> <<>>]
    /\ upload = [c \in Clients |-> Unmounted]
    /\ submits = [c \in Clients |-> <<>>]
    /\ annotator = [c \in Clients |-> Unmounted]
    /\ runs = [c \in Clients |-> <<>>]

InitRuns ==
    /\ EdgeAtRest
    /\ store = UploadedStore
    /\ session \in RunSessions
    /\ DatasetsTabsLoaded

\* a step of client c on the datasets tab and in the AI Annotator
RunStep(c) ==
    \/ StoreSettlesLoad(c)
    \/ loadDataReturns(c)
    \/ openAIAnnotator(c)
    \/ StoreSettlesProjects(c)
    \/ loadProjectsReturns(c)
    \/ setProjectId(c)
    \/ clickAnnotate(c)
    \/ SettleRun(c)
    \/ annotateAfterFile(c)
    \/ annotateAfterTask(c)
    \/ annotateAfterFetch(c)
    \/ annotateAfterUser(c)
    \/ annotateAfterInsert(c)
    \/ annotateTimerFires(c)
    \/ closeAnnotator(c)

NextRuns == \E c \in Clients : RunStep(c)

SpecRuns == InitRuns /\ [][NextRuns]_vars

\* the same two clients, the dataset being the long file
InitLongRuns ==
    /\ EdgeAtRest
    /\ store = StoreWithFile(LongFile)
    /\ session = [c \in Clients |-> IF c = 1 THEN "admin" ELSE "manager"]
    /\ DatasetsTabsLoaded

SpecLongRuns == InitLongRuns /\ [][NextRuns]_vars

\* the tables the clients write to
WrittenTables == {"projects", "datasets", "dataset_files", "annotation_tasks", "annotations"}

\* rows a signed-in user may post to the store's API
DirectRows(table) ==
    CASE table = "projects" -> {[project_name |-> "p"]}
      [] table = "datasets" -> {[dataset_name |-> "d"]}
      [] table = "dataset_files" ->
            {[dataset_id |-> "1", file_name |-> "f.csv", file_content |-> "x",
              file_size |-> 1, row_count |-> 1]}
      [] table = "annotation_tasks" -> {[project_id |-> "1", dataset_id |-> "1"]}
      [] table = "annotations" ->
            {[task_id |-> "1", user_id |-> uid, content |-> "{}"] : uid \in UserIds}

\* the user of client c posts an insert of one row to the store's API; the
\* policies of the table decide
DirectInsert(c) ==
    /\ session[c] # NoUser
    /\ \E table \in WrittenTables :
         /\ Len(store[table]) < Len(UploadedStore[table]) + MaxDirect
         /\ \E row \in DirectRows(table) :
              store' = insert(store, table, <<row>>, session[c], TRUE).store
    /\ UNCHANGED <<edgeVars, session, dash, loads, upload, submits, annotator, runs>>

\* the first client annotates while requests are also posted directly
NextGated ==
    \/ RunStep(1)
    \/ \E c \in Clients : DirectInsert(c)

SpecGated == InitRuns /\ [][NextGated]_vars

----------------------------------------------------------------------------
(* One client that has switched to the datasets tab while the load of the
   projects tab was still in flight, and then uploads.                    *)

\* the Dashboard just mounted has had its datasets tab clicked: the effect
\* has called loadData twice
SwitchedWhileLoading(signedIn) ==
    /\ dash = [c \in Clients |->
                 IF c \in signedIn
                   THEN [DashboardMounted EXCEPT !.activeTab = "datasets"]
                   ELSE Unmounted]
    /\ loads = [c \in Clients |->
                  IF c \in signedIn
                    THEN <<[tab |-> "projects", site |-> "effect", res |-> Pending],
                           [tab |-> "datasets", site |-> "effect", res |-> Pending]>>
                    ELSE <<>>]
    /\ upload = [c \in Clients |-> Unmounted]
    /\ submits = [c \in Clients |-> <<>>]
    /\ annotator = [c \in Clients |-> Unmounted]
    /\ runs = [c \in Clients |-> <<>>]

InitOverlap ==
    /\ EdgeAtRest
    /\ \E seed \in ProjectSeeds : store = [EmptyStore EXCEPT !.projects = seed]
    /\ \E uid \in UserIds : session = [c \in Clients |-> IF c = 1 THEN uid ELSE NoUser]
    /\ SwitchedWhileLoading({1})

NextOverlap ==
    \E c \in Clients :
       \/ LoadStep(c)
       \/ UploadStep(c)
       \/ clickUpload(c)

SpecOverlap == InitOverlap /\ [][NextOverlap]_vars

\* the event loop runs the continuation of a settled promise and the
\* callback of an expired timer
Resumes(c) == submitAfterFile(c) \/ annotateAfterInsert(c) \/ annotateTimerFires(c)

SpecAppFair == SpecApp /\ \A c \in Clients : WF_vars(Resumes(c))

----------------------------------------------------------------------------
(* Properties of the overlays.                                             *)

\* the rows of a table that satisfy a condition on one column, in the
\* order of their insertion
RowsWhere(table, column, value) ==
    SelectSeq(store[table], LAMBDA row : row[column] = value)

\* the runs of client c whose insert of annotations succeeded
SucceededRuns(c) ==
    {i \in 1..Len(runs[c]) :
        \/ runs[c][i].pc = "timer"
        \/ /\ runs[c][i].pc = "insertAnnotations"
           /\ runs[c][i].res # Pending
           /\ runs[c][i].res.error = JNull}

(* C12: after a successful auto-annotation run the annotations table holds,
   for the task the run created, exactly one row per annotation the endpoint
   returned (total_processed rows), in the order of the returned list; each
   row carries the run's task id, the id of the acting user and, as content,
   the JSON text of the result object. *)
C12_OneRowPerAnnotation ==
    \A c \in Clients : \A i \in SucceededRuns(c) :
       LET run == runs[c][i]
           returned == run.result.annotations
           rows == RowsWhere("annotations", "task_id", run.task.id)
       IN  /\ Len(rows) = run.result.total_processed
           /\ Len(rows) = Len(returned)
           /\ \A k \in 1..Len(rows) :
                 /\ rows[k].user_id = session[c]
                 /\ rows[k].content = stringify(returned[k])
                 /\ k > 1 => rows[k - 1].id # rows[k].id

\* a run over a file of two rows, a blank row between them, has inserted
\* its two rows: the first is the classification of the first row
C12_Witness ==
    \E c \in Clients : \E i \in SucceededRuns(c) :
       LET rows == RowsWhere("annotations", "task_id", runs[c][i].task.id)
       IN  /\ Len(rows) = 2
           /\ rows[1].content
                 = "{\"text\":\"good \\\"game\\\"\",\"category\":\"Sports\",\"confidence\":0.75}"
           /\ rows[1].user_id = "admin"

\* a step of client c issues no request: no activation starts or goes on,
\* no promise settles and the store is as it was
NoRequestIssued(c) ==
    /\ store' = store
    /\ loads' = loads
    /\ submits' = submits
    /\ runs' = runs
    /\ dash' = dash

(* C13: handleSubmit called with no file selected, and handleAnnotate called
   with no project chosen, set the inline error ('Please select a file',
   'Please select a project') and do nothing else: no store read, no store
   write and no endpoint request is issued, and the store is unchanged. *)
C13_InputErrorsCaught ==
    [][\A c \in Clients :
         /\ (handleSubmit(c) /\ upload[c].file = JNull) =>
               /\ upload'[c] = [upload[c] EXCEPT !.error = "Please select a file"]
               /\ annotator' = annotator
               /\ NoRequestIssued(c)
         /\ (handleAnnotate(c) /\ annotator[c].projectId = "") =>
               /\ annotator'[c] = [annotator[c] EXCEPT !.error = "Please select a project"]
               /\ upload' = upload
               /\ NoRequestIssued(c)]_vars

\* handleSubmit was called with a dataset name and no file: the overlay
\* shows the error, is not loading, and nothing was written
C13_Witness ==
    \E c \in Clients :
       /\ upload[c].mounted
       /\ upload[c].file = JNull
       /\ upload[c].datasetName # ""
       /\ upload[c].error = "Please select a file"
       /\ ~upload[c].loading
       /\ submits[c] = <<>>
       /\ store.datasets = <<>>

\* what the Dashboard renders below its tabs: the spinner while loading,
\* the table of the active tab otherwise
screenOf(d) == IF d.loading THEN "loading" ELSE "idle-with-data"

\* a settled promise carries a store-level error
Failed(res) == res # Pending /\ res # Returned /\ res.error # JNull

\* the awaits of the overlays' handlers that are store calls
StoreCalls == {"selectFile", "insertTask", "insertAnnotations", "insertDataset", "insertFile"}

(* C14: a data-access operation that fails with a store-level error is
   surfaced when its caller resumes: a failed load of the dashboard puts the
   screen in its error state, a failed load of the overlay's project list
   and a failed store call of an upload or of a run show the error's
   message in the overlay. *)
C14_StoreErrorsSurfaced ==
    [][\A c \in Clients :
         /\ \A i \in 1..Len(loads[c]) :
               (Failed(loads[c][i].res) /\ Len(loads[c]) = 1 /\ Len(loads'[c]) = 0)
                  => screenOf(dash'[c]) = "error"
         /\ (/\ annotator[c].mounted
             /\ Failed(annotator[c].loadProjects)
             /\ annotator'[c].mounted
             /\ annotator'[c].loadProjects = Returned)
               => annotator'[c].error = annotator[c].loadProjects.error.message
         /\ \A i \in 1..Len(runs[c]) :
               (/\ runs[c][i].pc \in StoreCalls
                /\ Failed(runs[c][i].res)
                /\ Len(runs'[c]) < Len(runs[c]))
                  => annotator'[c].error = runs[c][i].res.error.message
         /\ \A i \in 1..Len(submits[c]) :
               (/\ submits[c][i].pc \in StoreCalls
                /\ Failed(submits[c][i].res)
                /\ Len(submits'[c]) < Len(submits[c]))
                  => upload'[c].error = submits[c][i].res.error.message]_vars

\* the steps of a run the await of which can end the run
FailingSteps == {"selectFile", "insertTask", "fetch", "insertAnnotations"}

\* the message of the failure a settled await of a run ends with, "" when
\* the run goes on
failureOf(a) ==
    IF a.pc \notin FailingSteps \/ a.res = Pending THEN ""
    ELSE IF a.res.error # JNull THEN a.res.error.message
    ELSE IF a.pc = "selectFile" /\ a.res.data = JNull THEN "No file found for this dataset"
    ELSE IF a.pc = "fetch" /\ ~ok(a.res.data) THEN "AI annotation failed"
    ELSE ""

(* C15: when the dataset-file read, the task insert, the endpoint call or
   the annotation insert of a run has failed, the run's next step ends the
   run there: the activation is gone and none is started in its place, the
   store is not written, the overlay shows the failure's message unchanged,
   is no longer loading and is still mounted, and the dashboard is neither
   reloaded nor told to close the overlay. *)
C15_FailedRunAborts ==
    [][\A c \in Clients : \A i \in 1..Len(runs[c]) :
          (failureOf(runs[c][i]) # "" /\ Len(runs'[c]) < Len(runs[c]))
             => /\ runs'[c] = without(runs[c], i)
                /\ store' = store
                /\ annotator[c].mounted
                /\ annotator'[c] = [annotator[c] EXCEPT !.error = failureOf(runs[c][i]),
                                                        !.loading = FALSE]
                /\ dash' = dash
                /\ loads' = loads]_vars

\* a run has ended at the endpoint call: its task is stored, no annotation
\* is, and the overlay shows the failure
C15_Witness ==
    \E c \in Clients :
       /\ annotator[c].mounted
       /\ annotator[c].error = "AI annotation failed"
       /\ ~annotator[c].loading
       /\ runs[c] = <<>>
       /\ Len(store.annotation_tasks) = 1
       /\ store.annotations = <<>>
       /\ dash[c].showAIAnnotator

\* the last store call of a submission has succeeded
uploadSuccess(a) == a.pc = "insertFile" /\ a.res # Pending /\ a.res.error = JNull
runSuccess(a) ==
    \/ a.pc = "insertAnnotations" /\ a.res # Pending /\ a.res.error = JNull
    \/ a.pc = "timer"

\* the step in which a successful submission of client c calls onSuccess
onSuccessStep(c) ==
    \/ \E i \in 1..Len(submits[c]) :
          uploadSuccess(submits[c][i]) /\ submits'[c] = without(submits[c], i)
    \/ \E i \in 1..Len(runs[c]) :
          runs[c][i].pc = "timer" /\ runs'[c] = without(runs[c], i)

\* a step in which an overlay of client c is opened or closed, or a
\* submission of it starts, moves on or ends
overlayStep(c) ==
    \/ upload'[c].mounted # upload[c].mounted
    \/ annotator'[c].mounted # annotator[c].mounted
    \/ Len(submits'[c]) # Len(submits[c])
    \/ Len(runs'[c]) # Len(runs[c])
    \/ \E i \in 1..Len(submits[c]) : i <= Len(submits'[c]) /\ submits'[c][i].pc # submits[c][i].pc
    \/ \E i \in 1..Len(runs[c]) : i <= Len(runs'[c]) /\ runs'[c][i].pc # runs[c][i].pc

\* the loads of the dashboard started from an overlay's onSuccess
reloads(ls) == SelectSeq(ls, LAMBDA l : l.site = "onSuccess")

(* C16: a submission of an overlay whose last store call succeeded leads to
   the overlay being closed; the step that closes it starts exactly one
   load of the dashboard, and no other step of the overlays (cancel, a
   failed submission, any intermediate step) starts a load or closes the
   overlay through onSuccess. *)
C16_SuccessClosesAndReloadsOnce ==
    /\ \A c \in Clients :
          (\E i \in 1..Len(submits[c]) : uploadSuccess(submits[c][i]))
             ~> ~upload[c].mounted
    /\ \A c \in Clients :
          (\E i \in 1..Len(runs[c]) : runSuccess(runs[c][i]))
             ~> ~annotator[c].mounted
    /\ [][\A c \in Clients :
            /\ onSuccessStep(c)
                  => /\ Len(loads'[c]) = Len(loads[c]) + 1
                     /\ \A i \in 1..Len(loads[c]) :
                           /\ loads'[c][i].tab = loads[c][i].tab
                           /\ loads'[c][i].site = loads[c][i].site
                     /\ loads'[c][Len(loads'[c])].tab = dash[c].activeTab
                     /\ loads'[c][Len(loads'[c])].site = "onSuccess"
                     /\ loads'[c][Len(loads'[c])].res = Pending
                     /\ ~upload'[c].mounted /\ ~annotator'[c].mounted
            /\ (~onSuccessStep(c) /\ overlayStep(c))
                  => Len(loads'[c]) = Len(loads[c])]_vars

\* an annotation run has succeeded: its rows are stored, the overlay is
\* closed and the one reload it started is in flight
C16_Witness ==
    \E c \in Clients :
       /\ dash[c].mounted
       /\ ~dash[c].showAIAnnotator
       /\ ~annotator[c].mounted
       /\ runs[c] = <<>>
       /\ Len(reloads(loads[c])) = 1
       /\ Len(store.annotations) > 0

(* C17: a step that changes the active tab of a dashboard starts exactly
   one load, the one of the collection of the new tab, and shows the
   spinner; a step that ends a load leaves loading = false, whether the
   read succeeded or failed; and the oldest load in flight ends again and
   again unless from some time on no load is in flight, so that every
   load ends. *)
C17_TabSwitchLoadsItsCollection ==
    /\ [][\A c \in Clients :
            /\ (dash[c].mounted /\ dash'[c].mounted
                   /\ dash'[c].activeTab # dash[c].activeTab)
                  => /\ Len(loads'[c]) = Len(loads[c]) + 1
                     /\ \A i \in 1..Len(loads[c]) : loads'[c][i].tab = loads[c][i].tab
                     /\ loads'[c][Len(loads'[c])].tab = dash'[c].activeTab
                     /\ loads'[c][Len(loads'[c])].res = Pending
                     /\ dash'[c].loading
            /\ Len(loads'[c]) < Len(loads[c]) => ~dash'[c].loading]_vars
    /\ \A c \in Clients :
          \/ <>[](Len(loads[c]) = 0)
          \/ []<><<loadDataReturnsAt(c, 1) /\ ~dash'[c].loading>>_vars

\* a load that failed has ended after a switch to the annotations tab, the
\* spinner is gone and the tab's own load is still in flight
C17_Witness ==
    \E c \in Clients :
       /\ dash[c].mounted
       /\ dash[c].activeTab = "annotations"
       /\ dash[c].console # ""
       /\ ~dash[c].loading
       /\ Len(loads[c]) = 1
       /\ loads[c][1].tab = "annotations"

\* the awaits of a submission that are requests over the network
NetworkSteps ==
    {"insertDataset", "insertFile", "selectFile", "insertTask", "fetch", "getUser",
     "insertAnnotations"}

\* the number of activations of as that await a response
awaiting(as) == Len(SelectSeq(as, LAMBDA a : a.pc \in NetworkSteps /\ a.res = Pending))

\* the network operations of the overlays of client c that are pending
pendingOfUpload(c) == awaiting(submits[c])
pendingOfAnnotator(c) ==
    awaiting(runs[c])
      + (IF annotator[c].mounted /\ annotator[c].loadProjects = Pending THEN 1 ELSE 0)

(* C18: in each overlay at most one network operation is pending; a
   submission in flight belongs to a mounted overlay that is loading and
   whose submit and close controls are disabled, and it is the only
   submission of that overlay; a submission moves to its next step only
   when the response to the previous one has arrived. *)
C18_OnePendingOperation ==
    /\ [](\A c \in Clients :
            /\ pendingOfUpload(c) <= 1
            /\ pendingOfAnnotator(c) <= 1
            /\ Len(submits[c]) <= 1
            /\ Len(runs[c]) <= 1
            /\ Len(submits[c]) = 1
                  => /\ upload[c].mounted /\ upload[c].loading
                     /\ uploadDisabled(c) /\ closeDisabled(upload[c].loading)
            /\ Len(runs[c]) = 1
                  => /\ annotator[c].mounted /\ annotator[c].loading
                     /\ annotateDisabled(c) /\ closeDisabled(annotator[c].loading))
    /\ [][\A c \in Clients :
            /\ \A i \in 1..Len(submits[c]) :
                  (i <= Len(submits'[c]) /\ submits'[c][i].pc # submits[c][i].pc)
                     => submits[c][i].res # Pending /\ submits'[c][i].res = Pending
            /\ \A i \in 1..Len(runs[c]) :
                  (i <= Len(runs'[c]) /\ runs'[c][i].pc # runs[c][i].pc)
                     => runs[c][i].res # Pending /\ runs'[c][i].res = Pending]_vars

\* a run awaits the endpoint's response while the overlay's controls are
\* disabled
C18_Witness ==
    \E c \in Clients :
       /\ Len(runs[c]) = 1
       /\ runs[c][1].pc = "fetch"
       /\ runs[c][1].res = Pending
       /\ pendingOfAnnotator(c) = 1
       /\ annotateDisabled(c)
       /\ annotator[c].projectId # ""

\* the runs of a client whose task has been created
runsWithTask(c) == SelectSeq(runs[c], LAMBDA a : a.task # JNull)

\* the task ids of the rows of annotations from the k-th on
taskIdsFrom(rows, k) == {rows[i].task_id : i \in k..Len(rows)}

(* C19 as stated: two runs of different clients that are in flight at the
   same time on one dataset, their tasks created, run against the same
   task, which receives the results of both. *)
C19_SimultaneousRunsShareTask ==
    \A c1 \in Clients : \A c2 \in Clients \ {c1} :
       \A i \in 1..Len(runsWithTask(c1)) : \A j \in 1..Len(runsWithTask(c2)) :
          runsWithTask(c1)[i].datasetId = runsWithTask(c2)[j].datasetId
             => runsWithTask(c1)[i].task.id = runsWithTask(c2)[j].task.id

(* C19 amended: runs on one dataset are not mutually excluded, and each
   creates its own task: two runs in flight at the same time have
   different tasks, and a step that stores annotations stores them all
   under one task that had none before, so the results are duplicated
   across tasks of the dataset and never within a task. *)
C19_SimultaneousRunsOwnTasks ==
    /\ [](\A c1 \in Clients : \A c2 \in Clients \ {c1} :
            \A i \in 1..Len(runsWithTask(c1)) : \A j \in 1..Len(runsWithTask(c2)) :
               runsWithTask(c1)[i].task.id # runsWithTask(c2)[j].task.id)
    /\ [][Len(store'.annotations) > Len(store.annotations)
            => /\ Cardinality(taskIdsFrom(store'.annotations, Len(store.annotations) + 1)) = 1
               /\ taskIdsFrom(store'.annotations, Len(store.annotations) + 1)
                     \cap taskIdsFrom(store.annotations, 1) = {}]_vars

\* two runs on the dataset, in flight at the same time, have both stored
\* their annotations: two tasks of the dataset hold the same results
C19_Witness ==
    /\ \A c \in Clients : Len(runs[c]) = 1 /\ runs[c][1].pc = "timer"
    /\ Len(store.annotation_tasks) = 2
    /\ store.annotation_tasks[1].dataset_id = store.annotation_tasks[2].dataset_id
    /\ \A t \in 1..2 :
          Len(RowsWhere("annotations", "task_id", store.annotation_tasks[t].id)) > 0
    /\ [i \in 1..Len(RowsWhere("annotations", "task_id", "1")) |->
           RowsWhere("annotations", "task_id", "1")[i].content]
         = [i \in 1..Len(RowsWhere("annotations", "task_id", "2")) |->
              RowsWhere("annotations", "task_id", "2")[i].content]

\* the role gate of the store on a new row, as the policies state it
mayWrite(table, row, uid) ==
    /\ uid \in UserIds
    /\ IF table = "annotations" THEN row.user_id = uid
       ELSE UserRoles[uid] \in {"Admin", "Manager"}

\* a run of client c starts, moves on, has its request answered, or ends
runStep(c) ==
    \/ Len(runs'[c]) # Len(runs[c])
    \/ \E i \in 1..Len(runs[c]) :
          /\ i <= Len(runs'[c])
          /\ \/ runs'[c][i].pc # runs[c][i].pc
             \/ runs[c][i].res = Pending /\ runs'[c][i].res # Pending

(* C20: a step that adds rows to projects, datasets, dataset_files,
   annotation_tasks or annotations is the insert of a signed-in identity
   that is Admin or Manager, or for annotations the user_id of every new
   row; an insert the store answers without error was allowed by that
   gate, and one it answers with an error leaves the store as it was. A
   run of a user who is neither Admin nor Manager never gets a task: its
   insert of the task, when it reaches the store, is refused, and no step
   of the run writes to the store. *)
C20_WritesAreRoleGated ==
    /\ [][\A table \in WrittenTables :
            Len(store'[table]) > Len(store[table])
               => \E c \in Clients :
                     \A k \in (Len(store[table]) + 1)..Len(store'[table]) :
                        mayWrite(table, store'[table][k], session[c])]_vars
    /\ [](\A uid \in UserIds : \A table \in WrittenTables : \A row \in DirectRows(table) :
            LET r == insert(store, table, <<row>>, uid, TRUE)
            IN  /\ r.error = JNull => mayWrite(table, row, uid)
                /\ r.error # JNull => r.store = store)
    /\ [](\A c \in Clients : \A i \in 1..Len(runs[c]) :
            ~hasRole(session[c], {"Admin", "Manager"})
               => /\ runs[c][i].pc \in {"selectFile", "insertTask"}
                  /\ runs[c][i].task = JNull
                  /\ (runs[c][i].pc = "insertTask" /\ runs[c][i].res # Pending)
                        => runs[c][i].res.error \in {policyError("annotation_tasks"),
                                                     fetchError})
    /\ [][\A c \in Clients :
            (~hasRole(session[c], {"Admin", "Manager"}) /\ runStep(c))
               => store' = store]_vars

\* the run of an Annotator has been refused its task, after that user's own
\* annotation was accepted by a direct insert
C20_Witness ==
    \E c \in Clients :
       /\ session[c] = "annotator"
       /\ Len(runs[c]) = 1
       /\ runs[c][1].pc = "insertTask"
       /\ runs[c][1].res # Pending
       /\ runs[c][1].res.error = policyError("annotation_tasks")
       /\ Len(store.annotation_tasks) = 1
       /\ Len(RowsWhere("annotations", "user_id", "annotator")) = 1

\* the rows of a table a column of row refers to
referenced(table, value) == RowsWhere(table, "id", value)

(* C21: every dataset has no dataset_files row or one, and every task
   refers through its dataset_id to exactly one row of datasets and
   through its project_id to exactly one row of projects. *)
C21_FilesAndReferences ==
    /\ \A d \in 1..Len(store.datasets) :
          Len(RowsWhere("dataset_files", "dataset_id", store.datasets[d].id)) <= 1
    /\ \A t \in 1..Len(store.annotation_tasks) :
          /\ Len(referenced("datasets", store.annotation_tasks[t].dataset_id)) = 1
          /\ Len(referenced("projects", store.annotation_tasks[t].project_id)) = 1

\* two uploads, the second of which failed at its file, and a run that
\* created its task
C21_Witness ==
    /\ Len(store.datasets) = 2
    /\ Len(RowsWhere("dataset_files", "dataset_id", store.datasets[1].id)) = 1
    /\ Len(RowsWhere("dataset_files", "dataset_id", store.datasets[2].id)) = 0
    /\ Len(store.annotation_tasks) = 1
    /\ \A c \in Clients : submits[c] = <<>>

\* the step before a step of a run, and whether the await of that step
\* ended well enough for the run to go on
stepBefore(pc) ==
    CASE pc = "insertTask" -> "selectFile"
      [] pc = "fetch" -> "insertTask"
      [] pc = "getUser" -> "fetch"
      [] pc = "insertAnnotations" -> "getUser"
      [] pc = "timer" -> "insertAnnotations"
      [] OTHER -> ""
wentWell(a) ==
    /\ a.res # Pending
    /\ CASE a.pc = "selectFile" -> a.res.error = JNull /\ a.res.data # JNull
         [] a.pc = "insertTask" -> a.res.error = JNull
         [] a.pc = "fetch" -> a.res.error = JNull /\ ok(a.res.data)
         [] a.pc = "insertAnnotations" -> a.res.error = JNull
         [] OTHER -> TRUE

(* C23: a run comes to a step only from the step before it and only when
   that one went well: the file is read and found before the task is
   inserted, the task is inserted before the endpoint is called, the
   endpoint answered OK before the annotations are inserted, and the
   dashboard is reloaded from an overlay only by a run whose insert of the
   annotations succeeded. A task is stored only for a dataset that has a
   file, and annotations only under the task of a run the endpoint has
   answered. *)
C23_RunStepOrder ==
    /\ [](/\ \A c \in Clients : \A i \in 1..Len(runs[c]) :
              /\ runs[c][i].pc # "selectFile" => runs[c][i].files # JNull
              /\ runs[c][i].pc \notin {"selectFile", "insertTask"} => runs[c][i].task # JNull
              /\ runs[c][i].pc \in {"getUser", "insertAnnotations", "timer"}
                    => runs[c][i].result # JNull
           /\ \A t \in 1..Len(store.annotation_tasks) :
                 RowsWhere("dataset_files", "dataset_id",
                           store.annotation_tasks[t].dataset_id) # <<>>)
    /\ [][\A c \in Clients :
            /\ \A i \in 1..Len(runs[c]) :
                  (i <= Len(runs'[c]) /\ runs'[c][i].pc # runs[c][i].pc)
                     => /\ runs[c][i].pc = stepBefore(runs'[c][i].pc)
                        /\ wentWell(runs[c][i])
            /\ Len(store'.annotation_tasks) > Len(store.annotation_tasks)
                  => \E d \in Clients : \E i \in 1..Len(runs[d]) :
                        /\ runs[d][i].pc = "insertTask" /\ runs[d][i].res = Pending
                        /\ runs'[d][i].res # Pending
            /\ Len(store'.annotations) > Len(store.annotations)
                  => \E d \in Clients : \E i \in 1..Len(runs[d]) :
                        /\ runs[d][i].pc = "insertAnnotations" /\ runs[d][i].res = Pending
                        /\ runs'[d][i].res # Pending
            /\ (dash[c].mounted /\ dash[c].showAIAnnotator /\ Len(loads'[c]) > Len(loads[c]))
                  => \E i \in 1..Len(runs[c]) : runs[c][i].pc = "timer"]_vars

\* a run has gone through all its steps and waits for its timer, its task
\* and its annotations stored
C23_Witness ==
    \E c \in Clients :
       /\ Len(runs[c]) = 1
       /\ runs[c][1].pc = "timer"
       /\ RowsWhere("annotation_tasks", "id", runs[c][1].task.id) # <<>>
       /\ Len(RowsWhere("annotations", "task_id", runs[c][1].task.id))
             = Len(runs[c][1].result.annotations)
       /\ Len(runs[c][1].result.annotations) > 0

\* the ids of the rows a list of the dashboard shows
shownIds(list) == {list[k].id : k \in 1..Len(list)}

\* the list the i-th load in flight of client c is for has changed
listChanged(c, tab) == Len(dash'[c][tab]) # Len(dash[c][tab])
                         \/ shownIds(dash'[c][tab]) # shownIds(dash[c][tab])

(* C24: a list of the dashboard changes only in a step in which a load of
   that list's tab, its read answered without error, returns; and when the
   last load in flight returns without error, no overlay submission being
   under way, the list of its tab shows every row of the collection that
   the user may read, so also the rows an overlay has just created. *)
C24_ListsReflectStore ==
    [][\A c \in Clients :
         dash[c].mounted =>
            /\ \A tab \in Tabs :
                  listChanged(c, tab)
                     => \E i \in 1..Len(loads[c]) :
                           /\ loads[c][i].tab = tab
                           /\ loads[c][i].res # Pending
                           /\ loads[c][i].res.error = JNull
                           /\ Len(loads'[c]) < Len(loads[c])
            /\ (/\ Len(loads[c]) = 1 /\ Len(loads'[c]) = 0
                /\ loads[c][1].res.error = JNull
                /\ submits[c] = <<>> /\ runs[c] = <<>>)
                  => shownIds(dash'[c][loads[c][1].tab])
                        = idsOf(store, tableOfTab(loads[c][1].tab))]_vars

\* the keys of an annotation that Math.random fills
RandomKeys == {"confidence", "score"}

\* two annotations have the same keys and agree on all but the random ones
sameHeuristics(a, b) ==
    /\ DOMAIN a = DOMAIN b
    /\ \A key \in DOMAIN a \ RandomKeys : a[key] = b[key]

\* the task ids an invocation may carry
TaskIds == {JString("task-1"), JString("task-2"), Undefined}

(* C25: the annotations the endpoint returned for a request agree, row by
   row and in all keys but confidence and score, with those it returns for
   the same file_content and annotation_type under any task_id and any
   state of the random generator. *)
C25_HeuristicsArePure ==
    (Served /\ response.status = 200 /\ request.method # "OPTIONS") =>
        LET mine == response.body.annotations
        IN  \A taskId \in TaskIds : \A seed \in 0..MaxSeed :
               LET other == handler([request EXCEPT !.body.value.task_id = taskId],
                                    seed).response
               IN  /\ other.status = 200
                   /\ Len(other.body.annotations) = Len(mine)
                   /\ \A i \in 1..Len(mine) :
                         sameHeuristics(mine[i], other.body.annotations[i])

\* a classification of several rows whose confidence another state of the
\* generator changes
C25_Witness ==
    /\ Served /\ response.status = 200 /\ request.method # "OPTIONS"
    /\ is(request.body.value.annotation_type, "text-classification")
    /\ Len(response.body.annotations) > 1
    /\ \E seed \in 0..MaxSeed :
          handler(request, seed).response.body.annotations[1].confidence
             # response.body.annotations[1].confidence

\* the steps of a run that follow the creation of its task
StepsWithTask == {"fetch", "getUser", "insertAnnotations", "timer"}

\* the run of client c at position i has its insert of annotations answered
\* in this step
insertAnswered(c, i) ==
    /\ Len(runs'[c]) = Len(runs[c])
    /\ runs[c][i].pc = "insertAnnotations"
    /\ runs[c][i].res = Pending
    /\ runs'[c][i].res # Pending

(* C26: a run that has reached the call of the endpoint has a task of its
   own that the store holds, and posts that task's id; a step that creates
   a task creates one with an id no task had; a step that stores
   annotations stores those of one run, all of them under that run's task,
   which had none before; so no task holds more annotations than the
   endpoint processes rows. *)
C26_OneTaskPerRun ==
    /\ [](/\ \A c \in Clients : \A i \in 1..Len(runs[c]) :
              runs[c][i].pc \in StepsWithTask =>
                 /\ runs[c][i].task.id \in idsOf(store, "annotation_tasks")
                 /\ annotateRequest(runs[c][i]).body.value.task_id
                       = JString(runs[c][i].task.id)
                 /\ \A d \in Clients : \A j \in 1..Len(runs[d]) :
                       \/ <<d, j>> = <<c, i>>
                       \/ runs[d][j].pc \notin StepsWithTask
                       \/ runs[d][j].task.id # runs[c][i].task.id
           /\ \A id \in idsOf(store, "annotation_tasks") :
                 Len(RowsWhere("annotations", "task_id", id)) <= MaxRows)
    /\ [][/\ (Len(store'.annotation_tasks) > Len(store.annotation_tasks))
             => /\ Len(store'.annotation_tasks) = Len(store.annotation_tasks) + 1
                /\ store'.annotation_tasks[Len(store'.annotation_tasks)].id
                      \notin idsOf(store, "annotation_tasks")
          /\ (Len(store'.annotations) > Len(store.annotations))
             => \E c \in Clients : \E i \in 1..Len(runs[c]) :
                   /\ insertAnswered(c, i)
                   /\ Len(store'.annotations)
                         = Len(store.annotations) + Len(runs[c][i].result.annotations)
                   /\ taskIdsFrom(store'.annotations, Len(store.annotations) + 1)
                         = {runs[c][i].task.id}
                   /\ RowsWhere("annotations", "task_id", runs[c][i].task.id) = <<>>]_vars

\* the runs of two clients on a file of more rows than the endpoint
\* processes have stored their annotations, each under its own task
C26_Witness ==
    /\ store.dataset_files[1].row_count > MaxRows
    /\ Len(store.annotation_tasks) = 2
    /\ \A id \in idsOf(store, "annotation_tasks") :
          Len(RowsWhere("annotations", "task_id", id)) = MaxRows
    /\ \A c \in Clients : Len(runs[c]) = 1 /\ runs[c][1].pc = "timer"

\* the steps of a run that follow the endpoint's answer
StepsWithResult == {"getUser", "insertAnnotations", "timer"}

(* C29: the row_count a file is stored with at its upload is the number of
   rows the endpoint keeps of its content, and the endpoint's answer to a
   run on the file processes min(row_count, 100) rows. *)
C29_RowCountIsKeptRows ==
    /\ [][\A f \in (Len(store.dataset_files) + 1)..Len(store'.dataset_files) :
             store'.dataset_files[f].row_count
                = Len(rowsOf(store'.dataset_files[f].file_content))]_vars
    /\ [](\A c \in Clients : \A i \in 1..Len(runs[c]) :
             runs[c][i].pc \in StepsWithResult =>
                /\ runs[c][i].result.total_processed
                      = Min(runs[c][i].files.row_count, MaxRows)
                /\ Len(runs[c][i].result.annotations)
                      = runs[c][i].result.total_processed)

\* a run on an uploaded file that has blank rows and more rows than the
\* endpoint processes has got the endpoint's answer
C29_Witness ==
    \E c \in Clients :
       /\ Len(runs[c]) = 1
       /\ runs[c][1].pc = "timer"
       /\ runs[c][1].files.row_count > MaxRows
       /\ runs[c][1].files.row_count < Len(split(runs[c][1].files.file_content, "\n"))
       /\ runs[c][1].result.total_processed = MaxRows

\* the steps of a run at which the claim's failures happen
StepsAfterTask == {"fetch", "insertAnnotations"}

\* the submission of client c at position i ends in this step because its
\* insert into dataset_files failed
fileInsertFailed(c, i) ==
    /\ Len(submits'[c]) < Len(submits[c])
    /\ submits[c][i].pc = "insertFile"
    /\ submits[c][i].res # Pending
    /\ submits[c][i].res.error # JNull

(* C27: nothing is rolled back.  A run that ends because its endpoint call
   or its insert of annotations failed leaves its task in the store, with no
   annotation under it; a submission that ends because its insert into
   dataset_files failed leaves its dataset in the store, with no file; a
   read of the file of a dataset that has none answers with no row, and the
   run that made it ends with 'No file found for this dataset', having
   created no task. *)
C27_NoRollback ==
    [][\A c \in Clients :
         /\ \A i \in 1..Len(runs[c]) :
               /\ (/\ Len(runs'[c]) < Len(runs[c])
                   /\ runs[c][i].pc \in StepsAfterTask
                   /\ failureOf(runs[c][i]) # "")
                  => /\ runs[c][i].task.id \in idsOf(store', "annotation_tasks")
                     /\ runs[c][i].task.id \notin taskIdsFrom(store'.annotations, 1)
               /\ (/\ Len(runs'[c]) = Len(runs[c])
                   /\ runs[c][i].pc = "selectFile"
                   /\ runs[c][i].res = Pending
                   /\ runs'[c][i].res # Pending
                   /\ RowsWhere("dataset_files", "dataset_id", runs[c][i].datasetId) = <<>>)
                  => (runs'[c][i].res.error = JNull => runs'[c][i].res.data = JNull)
               /\ (/\ Len(runs'[c]) < Len(runs[c])
                   /\ runs[c][i].pc = "selectFile"
                   /\ runs[c][i].res # Pending
                   /\ runs[c][i].res.error = JNull
                   /\ runs[c][i].res.data = JNull)
                  => /\ annotator'[c].error = "No file found for this dataset"
                     /\ runs[c][i].task = JNull
                     /\ store' = store
         /\ \A i \in 1..Len(submits[c]) :
               fileInsertFailed(c, i)
                  => /\ submits[c][i].dataset.id \in idsOf(store', "datasets")
                     /\ \A f \in 1..Len(store'.dataset_files) :
                           store'.dataset_files[f].dataset_id # submits[c][i].dataset.id]_vars

\* the ids of the datasets that have no file
filelessDatasets ==
    {id \in idsOf(store, "datasets") : RowsWhere("dataset_files", "dataset_id", id) = <<>>}

\* an upload has left a dataset without file, and the run on that dataset
\* has ended with the message, no task created
C27_Witness ==
    \E c \in Clients :
       /\ annotator[c].mounted
       /\ annotator[c].datasetId \in filelessDatasets
       /\ annotator[c].error = "No file found for this dataset"
       /\ runs[c] = <<>>
       /\ store.annotation_tasks = <<>>

(* C28: while a mounted dashboard is not loading, no load of its active
   tab's collection is in flight. *)
C28_NotLoadingMeansLoaded ==
    \A c \in Clients :
       (dash[c].mounted /\ ~dash[c].loading)
          => \A i \in 1..Len(loads[c]) : loads[c][i].tab # dash[c].activeTab

----------------------------------------------------------------------------
(* A client that comes to /dashboard with or without a user, and signs     *)
(* out.                                                                    *)

\* what the Router renders instead of the Dashboard at a path, and whether
\* a handleSignOut is under way
Page(path, signingOut) == [mounted |-> FALSE, path |-> path, signingOut |-> signingOut]

render_withoutGuard(c) ==
    [activeTab |-> dash[c].activeTab, loading |-> dash[c].loading,
     rows |-> IF dash[c].loading THEN <<>> ELSE dash[c][dash[c].activeTab]]

\* what the Dashboard returns: null without user or profile, else the
\* spinner or the list of the active tab
render(c) ==
    IF session[c] = NoUser \/ session[c] \notin DOMAIN UserRoles
      THEN JNull
      ELSE [activeTab |-> dash[c].activeTab, loading |-> dash[c].loading,
            rows |-> IF dash[c].loading THEN <<>> ELSE dash[c][dash[c].activeTab]]

\* the Dashboard returns null
rendersNothing(c) == render(c) = JNull

visitDashboard_unguarded(c) ==
    LET l == loadData(DashboardMounted @@ [signingOut |-> dash[c].signingOut],
                      loads[c], "effect")
    IN  /\ ~dash[c].mounted
        /\ loads[c] = <<>>
        /\ dash' = [dash EXCEPT ![c] = l.dash]
        /\ loads' = [loads EXCEPT ![c] = l.loads]
        /\ UNCHANGED <<edgeVars, store, session, upload, submits, annotator, runs>>

\* the Router comes to render the Dashboard: useState(...), the first
\* render, and with a user the effect's loadData(); without one the effect
\* is the step effectWithoutUser
visitDashboard(c) ==
    LET mounted == DashboardMounted @@ [signingOut |-> dash[c].signingOut]
        l == loadData(mounted, loads[c], "effect")
    IN  /\ ~dash[c].mounted
        /\ loads[c] = <<>>
        /\ IF session[c] = NoUser
             THEN /\ dash' = [dash EXCEPT ![c] = mounted]
                  /\ UNCHANGED loads
             ELSE /\ dash' = [dash EXCEPT ![c] = l.dash]
                  /\ loads' = [loads EXCEPT ![c] = l.loads]
        /\ UNCHANGED <<edgeVars, store, session, upload, submits, annotator, runs>>

\* the effect on [user, activeTab] without a user: navigate('/signin'), and
\* the Router renders SignIn
effectWithoutUser(c) ==
    /\ dash[c].mounted
    /\ session[c] = NoUser
    /\ dash' = [dash EXCEPT ![c] = Page("/signin", dash[c].signingOut)]
    /\ UNCHANGED <<edgeVars, store, session, loads, upload, submits, annotator, runs>>

\* a click on Sign Out: handleSignOut up to the return of signOut(), which
\* leaves no user
handleSignOut(c) ==
    /\ dash[c].mounted
    /\ ~rendersNothing(c)
    /\ ~overlayShown(c)
    /\ ~dash[c].signingOut
    /\ session' = [session EXCEPT ![c] = NoUser]
    /\ dash' = [dash EXCEPT ![c].signingOut = TRUE]
    /\ UNCHANGED <<edgeVars, store, loads, upload, submits, annotator, runs>>

\* handleSignOut after its await: navigate('/'), and the Router renders Home
handleSignOutReturns(c) ==
    /\ dash[c].signingOut
    /\ dash' = [dash EXCEPT ![c] = Page("/", FALSE)]
    /\ UNCHANGED <<edgeVars, store, session, loads, upload, submits, annotator, runs>>

\* a store in which an Admin and an Annotator have annotations
AnnotatedStore ==
    LET withTask == insert(UploadedStore, "annotation_tasks",
                           <<[project_id |-> "1", dataset_id |-> UploadedStore.datasets[1].id]>>,
                           "admin", TRUE).store
        row(uid) == [task_id |-> withTask.annotation_tasks[1].id, user_id |-> uid,
                     content |-> "{}"]
    IN  insert(insert(withTask, "annotations", <<row("admin")>>, "admin", TRUE).store,
               "annotations", <<row("annotator")>>, "annotator", TRUE).store

\* client 1 is at Home, with or without a user
InitGuard ==
    /\ EdgeAtRest
    /\ store = AnnotatedStore
    /\ \E uid \in UserIds \cup {NoUser} :
          session = [c \in Clients |-> IF c = 1 THEN uid ELSE NoUser]
    /\ dash = [c \in Clients |-> Page("/", FALSE)]
    /\ loads = [c \in Clients |-> <<>>]
    /\ upload = [c \in Clients |-> Unmounted]
    /\ submits = [c \in Clients |-> <<>>]
    /\ annotator = [c \in Clients |-> Unmounted]
    /\ runs = [c \in Clients |-> <<>>]

GuardStep(c) ==
    \/ visitDashboard(c)
    \/ effectWithoutUser(c)
    \/ setActiveTab(c)
    \/ StoreSettlesLoad(c)
    \/ loadDataReturns(c)
    \/ handleSignOut(c)
    \/ handleSignOutReturns(c)

NextGuard == GuardStep(1)

SpecGuard == InitGuard /\ [][NextGuard]_vars

\* a read of a collection is issued in this step
readIssued(c) == Len(loads'[c]) > Len(loads[c])

(* C30: a mounted dashboard that has no user renders nothing; no step
   issues a read of a collection for a client that has no user; the step a
   userless dashboard takes is the navigation to /signin (or, under a
   handleSignOut, that handler's own navigation to /); and the annotations
   a rendered dashboard lists are rows of its user. *)
C30_NoDataWithoutUser ==
    /\ [](\A c \in Clients :
            dash[c].mounted =>
               /\ session[c] = NoUser => render(c) = JNull
               /\ (render(c) # JNull /\ render(c).activeTab = "annotations") =>
                     \A i \in 1..Len(render(c).rows) :
                        render(c).rows[i].user_id = session[c])
    /\ [][\A c \in Clients :
            /\ readIssued(c) => (session[c] # NoUser /\ session'[c] # NoUser)
            /\ (dash[c].mounted /\ session[c] = NoUser /\ dash'[c].mounted)
                  => dash'[c].activeTab = dash[c].activeTab
            /\ (dash[c].mounted /\ session[c] = NoUser /\ ~dash'[c].mounted)
                  => dash'[c].path \in (IF dash[c].signingOut THEN {"/signin", "/"}
                                                              ELSE {"/signin"})]_vars

\* a client without a user has come to /dashboard: it is at /signin, and no
\* read was issued
C30_Witness ==
    /\ session[1] = NoUser
    /\ ~dash[1].mounted
    /\ dash[1].path = "/signin"
    /\ ~dash[1].signingOut
    /\ loads[1] = <<>>

====
